---- MODULE Spec2Model ----
(***************************************************************************)
(* State-machine model of numba/hip/codegen.py: HIPCodeLibrary (lifecycle, *)
(* dependency list, per-architecture caches, reduce/rebuild) and           *)
(* _LinkerDependencyHandler (pre-order walk, collection, deduplication).   *)
(***************************************************************************)
EXTENDS Integers, Sequences, FiniteSets, TLC

\* ------------------------------------------------------------------ bounds
\* Library objects and dependency entries (summed over all libraries) in the
\* lifecycle specification Spec, where every call, raising or not, is taken.
LifeLibs == 2
LifeDeps == 2
\* The same in the dependency-graph specification SpecGraph.
GraphLibs == 3
GraphDeps == 3
\* In the cache specification SpecCache: library objects constructed by a
\* caller, library objects in all (constructed and rebuilt), dependency
\* entries, and get_* calls that build an object.
CacheInits == 1
CacheLibs == 2
CacheDeps == 1
MaxBuilds == 2
\* The loading specification: libraries (one constructed, one rebuilt) and
\* objects built.
ExecLibs == 2
ExecBuilds == 2

\* SpecTuple: the objects constructed, the entries appended and the objects
\* built.
TupleLibs == 2
TupleDeps == 2
TupleBuilds == 1

\* SpecFormat: the libraries constructed and the objects built.
FormatLibs == 1
FormatBuilds == 2

\* SpecText: the pieces an IR text is made of, and the applications of a
\* function to it.
MaxPieces == 3

\* SpecLinker: the LLVMModuleWrapper objects made.
MaxWrappers == 3
MaxApplications == 2

\* SpecModule: the functions of a module, and the calls on its library.
MaxFunctions == 2
MaxCalls == 3

Max(a, b) == IF a >= b THEN a ELSE b

\* Identities of HIPCodeLibrary objects.
Libs == 1..Max(Max(Max(LifeLibs, ExecLibs), Max(GraphLibs, CacheLibs)), TupleLibs)

\* ------------------------------------------------------- values of the model
\* Python's None for the owned module.
None == 0
\* llvmlite modules a caller can hand to add_ir_module.
Modules == {1, 2}

Archs == {"gfx90a", "gfx1100"}

LLVM_IR_EXT == {"ll", "bc", "ptx"}

\* File paths a caller can add, each as the pieces of its basename split at
\* os.path.extsep.
PathTable == << <<"dep", "ll">>, <<"dep", "hip">> >>

\* Tuple objects a caller can add, each as the sequence of its entries.
TupleTable ==
    << <<"irbuf", "None">>,                          \*  1
       <<"irbuf">>,                                  \*  2
       <<"dep.ll", "ll">>,                           \*  3
       <<"dep.hip", "hip">>,                         \*  4
       <<"dep.hip", "hip", "-O3 -g">>,               \*  5
       <<"dep.hip", "hip", "[-O3,-g]">>,             \*  6
       <<"irbuf", "4">>,                             \*  7
       <<"hipbuf", "4", "hip">>,                     \*  8
       <<"hipbuf", "None", "hip", "-O3 -g">>,        \*  9
       <<"hipbuf", "4", "hip", "[-O3,-g]">>,         \* 10
       <<"dep.ll", "ll", "extra">>,                  \* 11
       <<"dep.hip", "hip", "-O3 -g", "extra">>,      \* 12
       <<"hipbuf", "notanint", "hip">>,              \* 13
       <<"irbuf", "4", "cuda">>,                     \* 14
       <<"dep.cpp", "cpp">>,                         \* 15
       <<"hipbuf", "4", "hip", "-O3 -g", "extra">>,  \* 16
       <<"missing.ll", "ll", "extra">>,              \* 17
       <<"dep.hip", "hip", "7">>,                    \* 18
       <<"missing.ll", "ll">> >>                     \* 19

\* The tuples the lifecycle, graph and cache specifications hand in.
LifeTuples == {1, 2}

\* The Python value an entry stands for: None, an int, a list of str, or
\* else a str.
IsNone(v) == v = "None"
IsInt(v) == v \in {"4", "7"}
IsList(v) == v \in {"[-O3,-g]"}
IsStr(v) == ~IsNone(v) /\ ~IsInt(v) /\ ~IsList(v)

\* The items of a list entry.
ListItems(v) == IF v = "[-O3,-g]" THEN <<"-O3", "-g">> ELSE <<>>

\* shlex.split of a str entry.
shlex_split(v) == IF v = "-O3 -g" THEN <<"-O3", "-g">> ELSE <<v>>

\* The paths open() can read.
Readable == {"dep.ll", "dep.hip", "dep.cpp"}

\* A dependency handed to add_linking_dependency: a HIPCodeLibrary (ref: the
\* object), a str (ref: index of the path), a tuple (ref: the tuple object) or
\* an object of any other type.
LibNode(l) == [kind |-> "lib", ref |-> l]
FileNode(p) == [kind |-> "file", ref |-> p]
TupleNode(t) == [kind |-> "tuple", ref |-> t]
OtherNode == [kind |-> "other", ref |-> 0]
NoArg == [kind |-> "none", ref |-> 0]
ModArg(m) == [kind |-> "module", ref |-> m]

\* The dependencies callers hand in: every library, every tuple, an object of
\* another type, and the files named.
DepChoices(paths) ==
    {LibNode(l) : l \in Libs} \cup {FileNode(p) : p \in paths}
        \cup {TupleNode(t) : t \in LifeTuples} \cup {OtherNode}

\* An object built by the toolchain: a linked module (llvmutils.link_modules),
\* a code object (Linker.complete) or a linker log (Linker.info_log). id tells
\* objects built by different calls apart, parts are the modules linked into
\* it, to_bc its format. NoObj is the value of a missing cache entry (None).
Obj(kind, id, parts, to_bc) == [kind |-> kind, id |-> id, parts |-> parts, to_bc |-> to_bc]
NoObj == Obj("none", 0, <<>>, FALSE)

\* -------------------------------------------------------------------- state
VARIABLES
    created,               \* the HIPCodeLibrary objects constructed so far
    device,                \* _device: device function (TRUE) or kernel (FALSE)
    module,                \* _module: None or the owned llvmlite module
    linking_dependencies,  \* _linking_dependencies, in insertion order
    finalized,             \* _finalized
    unlinked_amdgpu_llvm_strs_cache,
    linked_amdgpu_llvm_ir_cache,
    linked_amdgpu_llvm_ir_with_hipdevicelib_cache,
    codeobj_cache,
    linkerinfo_cache,      \* the caches above: per library, architecture -> entry
    hipfunc_cache,         \* _hipfunc_cache: per library, device -> loaded function
    origin,                \* the library a rebuilt library was reduced from, or 0
    builds,                \* the get_* calls so far that built an object
    last,                  \* the last call: operation, receiver, arguments, outcome
    original_entry_name,   \* _original_entry_name of the library whose IR is processed
    entry_name,            \* its _entry_name
    llvm_str,              \* an IR text and what each application made of it
    transform,             \* the function applied to the text
    linkercache,           \* the process-wide linker cache: the entries stored
    wrappers,              \* the LLVMModuleWrapper objects made so far
    resolution,            \* the last call of a _LinkerDependencyHandler method
    ir_module,             \* the content of the _module of the library modified
    emitted,               \* the last call on that library and the IR it returned
    calls                  \* the calls on that library so far

libvars == <<created, device, module, linking_dependencies, finalized>>

cachevars ==
    <<unlinked_amdgpu_llvm_strs_cache, linked_amdgpu_llvm_ir_cache,
      linked_amdgpu_llvm_ir_with_hipdevicelib_cache, codeobj_cache, linkerinfo_cache>>

textvars == <<original_entry_name, entry_name, llvm_str, transform>>

linkervars == <<linkercache, wrappers, resolution>>

modulevars == <<ir_module, emitted, calls>>

toolvars == <<textvars, linkervars, modulevars>>

vars == <<libvars, cachevars, hipfunc_cache, origin, builds, last, toolvars>>

\* The record of a call: ret is what it returned (NoObj unless a get_* call
\* returned), collector whether it ran _get_linker_inputs, links how often it
\* called llvmutils.link_modules, sessions how many Linker objects it made;
\* error is the exception get_linker_inputs raised ("" if none), reads how
\* many files it opened, compiles how often it called hiprtc.compile and
\* inserts how many entries it stored in the linker cache.
GetCall(op, l, arch, to_bc, link_in_hipdevicelib, raised, ret, collector, links, sessions) ==
    [op |-> op, lib |-> l, arg |-> NoArg, raised |-> raised, arch |-> arch,
     to_bc |-> to_bc, link_in_hipdevicelib |-> link_in_hipdevicelib, ret |-> ret,
     collector |-> collector, links |-> links, sessions |-> sessions,
     error |-> "", reads |-> 0, compiles |-> 0, inserts |-> 0]

Call(op, l, arg, raised) ==
    [GetCall(op, l, "", FALSE, FALSE, raised, NoObj, FALSE, 0, 0) EXCEPT !.arg = arg]

\* A call that raises changes nothing but the recorded outcome.
Raise(op, l, arg) ==
    /\ last' = Call(op, l, arg, TRUE)
    /\ UNCHANGED <<libvars, cachevars, origin, builds, hipfunc_cache>>

EmptyCache == [a \in Archs |-> NoObj]

\* The devices a HIP context can be current on, each with its architecture.
DeviceArch == <<"gfx90a", "gfx90a", "gfx1100">>

DeviceArg(d) == [kind |-> "device", ref |-> d]

NoFuncs == [d \in DOMAIN DeviceArch |-> NoObj]

InitLibraries ==
    /\ created = {}
    /\ device = [l \in Libs |-> TRUE]
    /\ module = [l \in Libs |-> None]
    /\ linking_dependencies = [l \in Libs |-> <<>>]
    /\ finalized = [l \in Libs |-> FALSE]
    /\ unlinked_amdgpu_llvm_strs_cache = [l \in Libs |-> EmptyCache]
    /\ linked_amdgpu_llvm_ir_cache = [l \in Libs |-> EmptyCache]
    /\ linked_amdgpu_llvm_ir_with_hipdevicelib_cache = [l \in Libs |-> EmptyCache]
    /\ codeobj_cache = [l \in Libs |-> EmptyCache]
    /\ linkerinfo_cache = [l \in Libs |-> EmptyCache]
    /\ hipfunc_cache = [l \in Libs |-> NoFuncs]
    /\ origin = [l \in Libs |-> 0]
    /\ builds = 0
    /\ last = Call("none", 0, NoArg, FALSE)

\* An entry name that is None.
NoName == <<>>

\* No IR text is being processed.
InitNoText ==
    /\ original_entry_name = NoName
    /\ entry_name = NoName
    /\ llvm_str = <<>>
    /\ transform = ""

\* A call of a handler method that has not happened: nothing asked, nothing
\* returned.
NoResolution ==
    [op |-> "none", buffer |-> <<>>, arch |-> "", opts |-> [none |-> TRUE, items |-> <<>>],
     raised |-> FALSE, ret |-> 0, compiles |-> 0, wraps |-> 0]

\* The linker cache of a fresh process.
InitLinker ==
    /\ linkercache = {}
    /\ wrappers = 0
    /\ resolution = NoResolution

\* A call on the library modified that has not happened.
NoEmitted == [op |-> "none", arch |-> "", raised |-> FALSE, ir |-> <<>>]

\* No module's content is looked at.
InitNoModule ==
    /\ ir_module = [data_layout |-> "", functions |-> <<>>]
    /\ emitted = NoEmitted
    /\ calls = 0

Init == InitLibraries /\ InitNoText /\ InitLinker /\ InitNoModule

\* --------------------------------------------- numba.core.codegen.CodeLibrary
\* TRUE iff CodeLibrary._raise_if_finalized raises.
raise_if_finalized(l) == finalized[l]

\* TRUE iff CodeLibrary._ensure_finalized raises.
ensure_finalized(l) == ~finalized[l]

\* ------------------------------------------------------------ HIPCodeLibrary
\* HIPCodeLibrary.__init__ (max_registers=None): a fresh object, the next
\* unused identity.
init(l, dev) ==
    /\ l \notin created
    /\ l = Cardinality(created) + 1
    /\ created' = created \cup {l}
    /\ device' = [device EXCEPT ![l] = dev]
    /\ module' = [module EXCEPT ![l] = None]
    /\ linking_dependencies' = [linking_dependencies EXCEPT ![l] = <<>>]
    /\ finalized' = [finalized EXCEPT ![l] = FALSE]
    /\ last' = Call("init", l, NoArg, FALSE)
    /\ UNCHANGED <<cachevars, origin, builds, hipfunc_cache>>

\* add_ir_module without the test for an owned module.
add_ir_module_overwriting(l, mod) ==
    /\ l \in created
    /\ IF raise_if_finalized(l)
         THEN Raise("add_ir_module", l, ModArg(mod))
         ELSE /\ module' = [module EXCEPT ![l] = mod]
              /\ last' = Call("add_ir_module", l, ModArg(mod), FALSE)
              /\ UNCHANGED <<created, device, linking_dependencies, finalized,
                             cachevars, origin, builds, hipfunc_cache>>

add_ir_module(l, mod) ==
    /\ l \in created
    /\ IF raise_if_finalized(l) \/ module[l] # None
         THEN Raise("add_ir_module", l, ModArg(mod))
         ELSE /\ module' = [module EXCEPT ![l] = mod]
              /\ last' = Call("add_ir_module", l, ModArg(mod), FALSE)
              /\ UNCHANGED <<created, device, linking_dependencies, finalized,
                             cachevars, origin, builds, hipfunc_cache>>

\* Appends to _linking_dependencies.
append_dependency(l, dep) ==
    /\ linking_dependencies' =
           [linking_dependencies EXCEPT ![l] = Append(@, dep)]
    /\ last' = Call("add_linking_dependency", l, dep, FALSE)
    /\ UNCHANGED <<created, device, module, finalized, cachevars, origin, builds, hipfunc_cache>>

\* add_linking_library without the call of library._ensure_finalized().
add_linking_library_any(l, library) ==
    IF raise_if_finalized(l)
      THEN Raise("add_linking_dependency", l, LibNode(library))
      ELSE append_dependency(l, LibNode(library))

\* add_linking_library without the call of self._raise_if_finalized().
add_linking_library_late(l, library) ==
    IF ensure_finalized(library)
      THEN Raise("add_linking_dependency", l, LibNode(library))
      ELSE append_dependency(l, LibNode(library))

add_linking_library(l, library) ==
    IF ensure_finalized(library) \/ raise_if_finalized(l)
      THEN Raise("add_linking_dependency", l, LibNode(library))
      ELSE append_dependency(l, LibNode(library))

add_linking_dependency(l, dep) ==
    /\ l \in created
    /\ dep.kind = "lib" => dep.ref \in created
    /\ CASE dep.kind = "lib" -> add_linking_library(l, dep.ref)
         [] dep.kind = "file" -> append_dependency(l, dep)
         [] dep.kind = "tuple" ->
                IF Len(TupleTable[dep.ref]) \notin {2, 3, 4}
                  THEN Raise("add_linking_dependency", l, dep)
                  ELSE append_dependency(l, dep)
         [] OTHER -> Raise("add_linking_dependency", l, dep)

\* finalize without the guard, flipping the flag.
finalize_toggle(l) ==
    /\ l \in created
    /\ finalized' = [finalized EXCEPT ![l] = ~@]
    /\ last' = Call("finalize", l, NoArg, FALSE)
    /\ UNCHANGED <<created, device, module, linking_dependencies,
                   cachevars, origin, builds, hipfunc_cache>>

finalize(l) ==
    /\ l \in created
    /\ IF raise_if_finalized(l)
         THEN Raise("finalize", l, NoArg)
         ELSE /\ finalized' = [finalized EXCEPT ![l] = TRUE]
              /\ last' = Call("finalize", l, NoArg, FALSE)
              /\ UNCHANGED <<created, device, module, linking_dependencies,
                             cachevars, origin, builds, hipfunc_cache>>

\* ------------------------------------------------ _walk_linking_dependencies
RECURSIVE walk_linking_dependencies(_, _)
RECURSIVE walk_mods(_, _)

\* The for-loop of the walk over mods, a suffix of _linking_dependencies: a
\* library is walked by a recursive call made without post_order (its default,
\* False), a str or tuple is yielded, anything else is skipped.
walk_mods(mods, post_order) ==
    IF mods = <<>> THEN <<>>
    ELSE LET mod == Head(mods) IN
         (CASE mod.kind = "lib" -> walk_linking_dependencies(mod.ref, FALSE)
            [] mod.kind \in {"file", "tuple"} -> <<mod>>
            [] OTHER -> <<>>)
         \o walk_mods(Tail(mods), post_order)

\* The walk yielding the library first whatever post_order is.
walk_linking_dependencies_first(library, post_order) ==
    <<LibNode(library)>> \o walk_mods(linking_dependencies[library], post_order)

walk_linking_dependencies(library, post_order) ==
    (IF ~post_order THEN <<LibNode(library)>> ELSE <<>>)
    \o walk_mods(linking_dependencies[library], post_order)
    \o (IF post_order THEN <<LibNode(library)>> ELSE <<>>)

\* ------------------------------------------------- _LinkerDependencyHandler
\* The extension the handler reads off a path.
fileext(p) == PathTable[p][Len(PathTable[p])]

\* The outcome of _handle_tuple: whether it raises and what, how many files
\* it has opened by then, and the buffer, kind and options it returns.
Parsed(raised, error, reads, buf, buf_len, input_kind, hip_opts) ==
    [raised |-> raised, error |-> error, reads |-> reads, buf |-> buf, buf_len |-> buf_len,
     input_kind |-> input_kind, hip_opts |-> hip_opts]

TupleError(error, reads) == Parsed(TRUE, error, reads, "", "None", "ll", "None")

\* The checks after the two branches of _handle_tuple: hip_opts, if truthy,
\* is a list or a str, and the tuple has at most max_len entries. max_len = 0
\* stands for the local that no branch has assigned.
check_opts_and_length(dep, reads, buf_len, input_kind, opts, max_len) ==
    IF ~IsNone(opts) /\ ~IsList(opts) /\ ~IsStr(opts) THEN TupleError("ValueError", reads)
    ELSE IF max_len = 0 THEN TupleError("UnboundLocalError", reads)
    ELSE IF Len(dep) > max_len THEN TupleError("ValueError", reads)
    ELSE Parsed(FALSE, "", reads, dep[1], buf_len, input_kind,
                IF IsNone(opts) THEN "None"
                ELSE IF IsStr(opts) THEN shlex_split(opts) ELSE ListItems(opts))

\* The branch of _handle_tuple for (filepath, kind, ...): the file is read
\* first.
handle_file_tuple(dep) ==
    IF dep[1] \notin Readable THEN TupleError("OSError", 1)
    ELSE IF dep[2] = "hip"
      THEN check_opts_and_length(dep, 1, "None", "hip",
                                 IF Len(dep) >= 3 THEN dep[3] ELSE "None", 3)
      ELSE check_opts_and_length(dep, 1, "None", dep[2], "None", 2)

\* The branch of _handle_tuple for (buf, buf_len, ...): input_kind keeps its
\* initial value, and max_len is assigned for two entries and for more than
\* three.
handle_buffer_tuple(dep) ==
    IF ~IsNone(dep[2]) /\ ~IsInt(dep[2]) THEN TupleError("ValueError", 0)
    ELSE IF Len(dep) > 2 /\ dep[3] # "hip" THEN TupleError("ValueError", 0)
    ELSE check_opts_and_length(dep, 0, dep[2], "ll",
                               IF Len(dep) > 3 THEN dep[4] ELSE "None",
                               IF Len(dep) > 3 THEN 4 ELSE IF Len(dep) > 2 THEN 0 ELSE 2)

\* _handle_tuple(dep).
handle_tuple(dep) ==
    IF Len(dep) < 2 THEN TupleError("ValueError", 0)
    ELSE IF IsStr(dep[2]) /\ dep[2] \in {"ll", "hip"} THEN handle_file_tuple(dep)
    ELSE handle_buffer_tuple(dep)

\* The route and the options of the module a parsed tuple is resolved to.
tuple_mod(dependency, arch, h) ==
    [src |-> dependency, mod |-> None, arch |-> arch,
     via |-> IF h.input_kind = "ll" THEN "ir" ELSE "hiprtc",
     opts |-> h.hip_opts]

\* The module the handler resolves a walked dependency to, in linking mode for
\* architecture arch: what it was made from and by which route (wrapped as
\* LLVM IR/BC, or compiled from HIP C++ by HIPRTC).
dep_mod(dependency, arch) ==
    IF dependency.kind = "tuple"
      THEN tuple_mod(dependency, arch, handle_tuple(TupleTable[dependency.ref]))
      ELSE [src |-> dependency,
            mod |-> IF dependency.kind = "lib" THEN module[dependency.ref] ELSE None,
            arch |-> arch,
            via |-> IF dependency.kind = "file" /\ fileext(dependency.ref) \notin LLVM_IR_EXT
                      THEN "hiprtc" ELSE "ir",
            opts |-> "None"]

\* The key add_ gives an entry: the path of a file, id(dependency) of any
\* other object. Distinct live objects have distinct ids, and no id is a str.
dep_id(dependency) == dependency

\* unprocessed_result giving every occurrence of a tuple a key of its own.
unprocessed_result_tuples_unkeyed(library, arch) ==
    LET w == walk_linking_dependencies(library, FALSE) IN
    [i \in 1..Len(w) |-> [dep_id |-> IF w[i].kind = "tuple"
                                       THEN [kind |-> "occurrence", ref |-> i]
                                     ELSE dep_id(w[i]),
                          dep_mod |-> dep_mod(w[i], arch)]]

\* unprocessed_result over the post-order walk.
unprocessed_result_post_order(library, arch) ==
    LET w == walk_linking_dependencies(library, TRUE) IN
    [i \in 1..Len(w) |-> [dep_id |-> dep_id(w[i]), dep_mod |-> dep_mod(w[i], arch)]]

\* The list get_linker_inputs builds before it removes duplicates.
unprocessed_result(library, arch) ==
    LET w == walk_linking_dependencies(library, FALSE) IN
    [i \in 1..Len(w) |-> [dep_id |-> dep_id(w[i]), dep_mod |-> dep_mod(w[i], arch)]]

reversed(s) == [i \in 1..Len(s) |-> s[Len(s) + 1 - i]]

\* remove_duplicates scanning from the start: the first occurrence survives.
remove_duplicates_forward(unprocessed) ==
    LET scan[i \in 0..Len(unprocessed)] ==
            IF i = 0 THEN [result |-> <<>>, dep_ids |-> {}]
            ELSE LET before == scan[i - 1] IN
                 [result |-> IF unprocessed[i].dep_id \notin before.dep_ids
                               THEN Append(before.result, unprocessed[i].dep_mod)
                               ELSE before.result,
                  dep_ids |-> before.dep_ids \cup {unprocessed[i].dep_id}]
    IN scan[Len(unprocessed)].result

\* remove_duplicates keeping every entry.
remove_duplicates_none(unprocessed) ==
    [i \in 1..Len(unprocessed) |-> unprocessed[i].dep_mod]

\* remove_duplicates returning what the reverse scan kept without reversing it
\* back.
remove_duplicates_unreversed(unprocessed) ==
    LET r == reversed(unprocessed)
        scan[i \in 0..Len(r)] ==
            IF i = 0 THEN [result |-> <<>>, dep_ids |-> {}]
            ELSE LET before == scan[i - 1] IN
                 [result |-> IF r[i].dep_id \notin before.dep_ids
                               THEN Append(before.result, r[i].dep_mod)
                               ELSE before.result,
                  dep_ids |-> before.dep_ids \cup {r[i].dep_id}]
    IN scan[Len(r)].result

\* The scan of _remove_duplicates over the reversed list, then the reversal of
\* what it kept.
remove_duplicates(unprocessed) ==
    LET r == reversed(unprocessed)
        scan[i \in 0..Len(r)] ==
            IF i = 0 THEN [result |-> <<>>, dep_ids |-> {}]
            ELSE LET before == scan[i - 1] IN
                 [result |-> IF r[i].dep_id \notin before.dep_ids
                               THEN Append(before.result, r[i].dep_mod)
                               ELSE before.result,
                  dep_ids |-> before.dep_ids \cup {r[i].dep_id}]
    IN reversed(scan[Len(r)].result)

\* hipconfig.USE_LINKER_CACHE, the use_cache of the handler.
USE_LINKER_CACHE == TRUE

\* What one turn of the loop of get_linker_inputs does: whether it raises and
\* what, how many files it opens, how often it calls hiprtc.compile.
Turn(raised, error, reads, compiles) ==
    [raised |-> raised, error |-> error, reads |-> reads, compiles |-> compiles]

\* The turn for a parsed tuple h: LLVM IR/BC is wrapped; HIP C++ is compiled
\* (the linker cache holds no entry for the source yet), and without options
\* "".join(opts) raises when the linker cache is used.
process_tuple(h) ==
    IF h.raised THEN Turn(TRUE, h.error, h.reads, 0)
    ELSE IF h.input_kind = "ll" THEN Turn(FALSE, "", h.reads, 0)
    ELSE IF h.hip_opts = "None" /\ USE_LINKER_CACHE THEN Turn(TRUE, "TypeError", h.reads, 0)
    ELSE Turn(FALSE, "", h.reads, 1)

\* The turn for a walked dependency. A library raises when it owns no module
\* (get_unlinked_llvm_ir reads self._module); a file is read, and compiled
\* unless its extension is an LLVM IR one.
process_dependency(dependency) ==
    CASE dependency.kind = "lib" ->
             IF module[dependency.ref] = None
               THEN Turn(TRUE, "AttributeError", 0, 0) ELSE Turn(FALSE, "", 0, 0)
      [] dependency.kind = "file" ->
             Turn(FALSE, "", 1, IF fileext(dependency.ref) \in LLVM_IR_EXT THEN 0 ELSE 1)
      [] dependency.kind = "tuple" -> process_tuple(handle_tuple(TupleTable[dependency.ref]))
      [] OTHER -> Turn(TRUE, "RuntimeError", 0, 0)

\* The loop after the turn p, the turns before having done before: a raise
\* ends it.
after_turn(before, p) ==
    IF before.raised THEN before
    ELSE Turn(p.raised, p.error, before.reads + p.reads, before.compiles + p.compiles)

\* The loop of get_linker_inputs over the pre-order walk w, up to and
\* including the first dependency that raises.
RECURSIVE trace_of(_, _)
trace_of(w, n) ==
    IF n = 0 THEN Turn(FALSE, "", 0, 0)
    ELSE after_turn(trace_of(w, n - 1), process_dependency(w[n]))

collector_trace(library) ==
    trace_of(walk_linking_dependencies(library, FALSE),
             Len(walk_linking_dependencies(library, FALSE)))

linker_inputs_raise(library) == collector_trace(library).raised

\* The entries a turn that does not raise stores in the linker cache, which
\* holds none of them yet: _process_buf stores the wrapped module, and
\* _compile_hiprtc_program, after _process_buf of the compiled bitcode, stores
\* that result under the source and its options.
turn_inserts(p) == IF ~USE_LINKER_CACHE \/ p.raised THEN 0 ELSE 1 + p.compiles

\* The entries the loop over w has stored after n turns; no turn follows one
\* that raised.
RECURSIVE inserts_of(_, _)
inserts_of(w, n) ==
    IF n = 0 THEN 0
    ELSE IF trace_of(w, n - 1).raised THEN inserts_of(w, n - 1)
    ELSE inserts_of(w, n - 1) + turn_inserts(process_dependency(w[n]))

linker_cache_inserts(library) ==
    inserts_of(walk_linking_dependencies(library, FALSE),
               Len(walk_linking_dependencies(library, FALSE)))

\* The record of a get_* call with what the collector did in it.
with_trace(call, t, inserts) ==
    IF call.collector
      THEN [call EXCEPT !.error = t.error, !.reads = t.reads, !.compiles = t.compiles,
                        !.inserts = inserts]
      ELSE call

Collected(call, l) == with_trace(call, collector_trace(l), linker_cache_inserts(l))

\* get_linker_inputs with remove_duplicates=True.
get_linker_inputs(library, arch) == remove_duplicates(unprocessed_result(library, arch))

\* ------------------------------------------------- linking and code objects
\* hipdevicelib.get_llvm_module(arch) (via "ir") and get_llvm_bc(arch) (via "bc").
hipdevicelib(arch, via) ==
    [src |-> [kind |-> "hipdevicelib", ref |-> 0], mod |-> None, arch |-> arch, via |-> via]

\* llvmutils.link_modules: a new module made of the modules handed in.
link_modules(parts, to_bc, id) == Obj("linked", id, parts, to_bc)

\* numba.core.config.DUMP_LLVM, off unless the user sets it.
DUMP_LLVM == FALSE

\* _lookup_linked_llvm_ir: the module found (NoObj: None), and whether it was
\* made here, from the entry without the device library, and stored with it.
\* That link_modules call hands over the entry found where the call in
\* get_linked_llvm_ir hands over the list of inputs, and the device library
\* module where that call hands over to_bc: the entry is all there is to link,
\* and to_bc is a module, which is true.
lookup_linked_llvm_ir(l, arch, link_in_hipdevicelib, id) ==
    LET with == linked_amdgpu_llvm_ir_with_hipdevicelib_cache[l][arch]
        without == linked_amdgpu_llvm_ir_cache[l][arch]
    IN IF link_in_hipdevicelib
         THEN IF with # NoObj THEN [result |-> with, made |-> FALSE]
              ELSE IF without # NoObj
                THEN [result |-> link_modules(without.parts, TRUE, id), made |-> TRUE]
                ELSE [result |-> NoObj, made |-> FALSE]
         ELSE [result |-> without, made |-> FALSE]

\* What a call of get_linked_llvm_ir does: whether it raises, what it returns,
\* whether it ran the collector, how often it linked, whether it built an
\* object, and the three caches of l it leaves. The mid-end optimizer is off
\* (options has no "opt").
linked_llvm_ir(l, arch, to_bc, link_in_hipdevicelib, id) ==
    LET found == lookup_linked_llvm_ir(l, arch, link_in_hipdevicelib, id)
        same == [raised |-> FALSE, ret |-> NoObj, collector |-> FALSE, links |-> 0,
                 built |-> FALSE,
                 unlinked |-> unlinked_amdgpu_llvm_strs_cache[l],
                 linked |-> linked_amdgpu_llvm_ir_cache[l],
                 with |-> linked_amdgpu_llvm_ir_with_hipdevicelib_cache[l]]
    IN IF found.result # NoObj
         THEN [same EXCEPT !.ret = found.result,
                           !.links = IF found.made THEN 1 ELSE 0,
                           !.built = found.made,
                           !.with = IF found.made
                                      THEN [@ EXCEPT ![arch] = found.result] ELSE @]
       ELSE IF linker_inputs_raise(l)
         THEN [same EXCEPT !.raised = TRUE, !.collector = TRUE]
       ELSE LET inputs == get_linker_inputs(l, arch)
                linked == link_modules(
                              inputs \o (IF link_in_hipdevicelib
                                           THEN <<hipdevicelib(arch, "ir")>> ELSE <<>>),
                              to_bc, id)
            IN [same EXCEPT !.ret = linked, !.collector = TRUE, !.links = 1,
                            !.built = TRUE,
                            !.unlinked = IF DUMP_LLVM
                                           THEN [@ EXCEPT ![arch] = Obj("strs", 0, inputs, FALSE)]
                                           ELSE @,
                            !.linked = [@ EXCEPT ![arch] = linked]]

get_linked_llvm_ir(l, arch, to_bc, link_in_hipdevicelib) ==
    /\ l \in created
    /\ LET r == linked_llvm_ir(l, arch, to_bc, link_in_hipdevicelib, builds + 1) IN
       /\ unlinked_amdgpu_llvm_strs_cache' =
              [unlinked_amdgpu_llvm_strs_cache EXCEPT ![l] = r.unlinked]
       /\ linked_amdgpu_llvm_ir_cache' = [linked_amdgpu_llvm_ir_cache EXCEPT ![l] = r.linked]
       /\ linked_amdgpu_llvm_ir_with_hipdevicelib_cache' =
              [linked_amdgpu_llvm_ir_with_hipdevicelib_cache EXCEPT ![l] = r.with]
       /\ builds' = IF r.built THEN builds + 1 ELSE builds
       /\ last' = Collected(GetCall("get_linked_llvm_ir", l, arch, to_bc,
                                    link_in_hipdevicelib, r.raised, r.ret, r.collector,
                                    r.links, 0), l)
       /\ UNCHANGED <<libvars, codeobj_cache, linkerinfo_cache, origin, hipfunc_cache>>

\* A call that has done nothing yet: not raised, nothing returned, the five
\* caches of l as they are.
NoEffect(l) ==
    [raised |-> FALSE, ret |-> NoObj, collector |-> FALSE, links |-> 0,
     sessions |-> 0, built |-> FALSE,
     unlinked |-> unlinked_amdgpu_llvm_strs_cache[l],
     linked |-> linked_amdgpu_llvm_ir_cache[l],
     with |-> linked_amdgpu_llvm_ir_with_hipdevicelib_cache[l],
     codeobj |-> codeobj_cache[l],
     linkerinfo |-> linkerinfo_cache[l]]

\* get_codeobj past the role test: the cached code object if there is one;
\* otherwise a Linker is made and fed the module linked with the device
\* library, or the module linked without it and the device library bitcode,
\* or the result of a nested get_linked_llvm_ir(to_bc=True,
\* link_in_hipdevicelib=False) and the device library bitcode; the code object
\* and the linker's log are stored under arch.
codeobj_of_kernel(l, arch, id) ==
    LET with == linked_amdgpu_llvm_ir_with_hipdevicelib_cache[l][arch]
        without == linked_amdgpu_llvm_ir_cache[l][arch]
        r == linked_llvm_ir(l, arch, TRUE, FALSE, id)
        nested == with = NoObj /\ without = NoObj
        added == IF with # NoObj THEN with.parts
                 ELSE IF without # NoObj
                   THEN without.parts \o <<hipdevicelib(arch, "bc")>>
                   ELSE r.ret.parts \o <<hipdevicelib(arch, "bc")>>
    IN IF codeobj_cache[l][arch] # NoObj
         THEN [NoEffect(l) EXCEPT !.ret = codeobj_cache[l][arch]]
       ELSE IF nested /\ r.raised
         THEN [NoEffect(l) EXCEPT !.raised = TRUE, !.collector = r.collector,
                                  !.links = r.links, !.sessions = 1]
       ELSE [NoEffect(l) EXCEPT
                !.ret = Obj("codeobj", id, added, FALSE),
                !.collector = nested /\ r.collector,
                !.links = IF nested THEN r.links ELSE 0,
                !.sessions = 1,
                !.built = TRUE,
                !.unlinked = IF nested THEN r.unlinked ELSE @,
                !.linked = IF nested THEN r.linked ELSE @,
                !.with = IF nested THEN r.with ELSE @,
                !.codeobj = [@ EXCEPT ![arch] = Obj("codeobj", id, added, FALSE)],
                !.linkerinfo = [@ EXCEPT ![arch] = Obj("log", id, <<>>, FALSE)]]

\* get_codeobj looking into the cache before it tests the role.
codeobj_cache_first(l, arch, id) ==
    IF codeobj_cache[l][arch] = NoObj /\ device[l]
      THEN [NoEffect(l) EXCEPT !.raised = TRUE]
      ELSE codeobj_of_kernel(l, arch, id)

\* get_codeobj not storing the linker's log.
codeobj_without_log(l, arch, id) ==
    IF device[l]
      THEN [NoEffect(l) EXCEPT !.raised = TRUE]
      ELSE [codeobj_of_kernel(l, arch, id) EXCEPT !.linkerinfo = linkerinfo_cache[l]]

\* get_codeobj with a code object cache that is not keyed by architecture.
codeobj_one_slot(l, arch, id) ==
    IF device[l]
      THEN [NoEffect(l) EXCEPT !.raised = TRUE]
      ELSE LET r == codeobj_of_kernel(l, arch, id) IN
           [r EXCEPT !.codeobj = [a \in Archs |-> r.codeobj[arch]]]

\* What a call of get_codeobj does: whether it raises, what it returns, whether
\* the nested get_linked_llvm_ir ran the collector and how often it linked,
\* how many Linker objects were made, whether an object was built, and the
\* five caches of l it leaves. A device function raises before anything else.
codeobj(l, arch, id) ==
    IF device[l]
      THEN [NoEffect(l) EXCEPT !.raised = TRUE]
      ELSE codeobj_of_kernel(l, arch, id)

\* The caches of l become those the call r leaves.
StoreCaches(l, r) ==
    /\ unlinked_amdgpu_llvm_strs_cache' =
           [unlinked_amdgpu_llvm_strs_cache EXCEPT ![l] = r.unlinked]
    /\ linked_amdgpu_llvm_ir_cache' = [linked_amdgpu_llvm_ir_cache EXCEPT ![l] = r.linked]
    /\ linked_amdgpu_llvm_ir_with_hipdevicelib_cache' =
           [linked_amdgpu_llvm_ir_with_hipdevicelib_cache EXCEPT ![l] = r.with]
    /\ codeobj_cache' = [codeobj_cache EXCEPT ![l] = r.codeobj]
    /\ linkerinfo_cache' = [linkerinfo_cache EXCEPT ![l] = r.linkerinfo]

get_codeobj(l, arch) ==
    /\ l \in created
    /\ LET r == codeobj(l, arch, builds + 1) IN
       /\ StoreCaches(l, r)
       /\ builds' = IF r.built THEN builds + 1 ELSE builds
       /\ last' = Collected(GetCall("get_codeobj", l, arch, FALSE, FALSE, r.raised, r.ret,
                                    r.collector, r.links, r.sessions), l)
       /\ UNCHANGED <<libvars, origin, hipfunc_cache>>

\* get_unlinked_llvm_ir: _apply_llvm_amdgpu_modifications assigns to an
\* attribute of self._module, which raises when the library owns no module;
\* otherwise the text of the module, modified for arch, is returned. Nothing is
\* cached and _finalized is not read. (The module stays the same object; the
\* attributes stamped on its functions are not part of this state.)
get_unlinked_llvm_ir(l, arch) ==
    /\ l \in created
    /\ last' = IF module[l] = None
                THEN GetCall("get_unlinked_llvm_ir", l, arch, FALSE, FALSE, TRUE, NoObj,
                             FALSE, 0, 0)
                ELSE GetCall("get_unlinked_llvm_ir", l, arch, FALSE, FALSE, FALSE,
                             Obj("unlinked", 0, <<dep_mod(LibNode(l), arch)>>, FALSE),
                             FALSE, 0, 0)
    /\ UNCHANGED <<libvars, cachevars, origin, builds, hipfunc_cache>>

\* get_hipfunc looking its cache up by the architecture of the device.
get_hipfunc_by_arch(l, d) ==
    /\ l \in created
    /\ LET arch == DeviceArch[d]
           id == builds + 1
           call == [GetCall("get_hipfunc", l, arch, FALSE, FALSE, FALSE, NoObj, FALSE, 0, 0)
                       EXCEPT !.arg = DeviceArg(d)]
           r == codeobj(l, arch, id)
       IN IF device[l]
            THEN /\ last' = [call EXCEPT !.raised = TRUE, !.arch = ""]
                 /\ UNCHANGED <<libvars, cachevars, origin, builds, hipfunc_cache>>
          ELSE IF \E e \in DOMAIN DeviceArch :
                      DeviceArch[e] = arch /\ hipfunc_cache[l][e] # NoObj
            THEN /\ last' = [call EXCEPT !.ret =
                                 hipfunc_cache[l][CHOOSE e \in DOMAIN DeviceArch :
                                     DeviceArch[e] = arch /\ hipfunc_cache[l][e] # NoObj]]
                 /\ UNCHANGED <<libvars, cachevars, origin, builds, hipfunc_cache>>
          ELSE IF r.raised
            THEN /\ last' = [call EXCEPT !.raised = TRUE, !.collector = r.collector,
                                         !.links = r.links, !.sessions = r.sessions]
                 /\ UNCHANGED <<libvars, cachevars, origin, builds, hipfunc_cache>>
          ELSE LET hipfunc == Obj("hipfunc", id, r.ret.parts, FALSE) IN
               /\ StoreCaches(l, r)
               /\ hipfunc_cache' = [hipfunc_cache EXCEPT ![l][d] = hipfunc]
               /\ builds' = id
               /\ last' = [call EXCEPT !.ret = hipfunc, !.collector = r.collector,
                                       !.links = r.links, !.sessions = r.sessions]
               /\ UNCHANGED <<libvars, origin>>

\* get_hipfunc with device d current: raises for a device function before the
\* context is read; returns the cached function of d; otherwise gets the code
\* object of the architecture of d, loads it and caches the function under d.
get_hipfunc(l, d) ==
    /\ l \in created
    /\ LET arch == DeviceArch[d]
           id == builds + 1
           call == [GetCall("get_hipfunc", l, arch, FALSE, FALSE, FALSE, NoObj, FALSE, 0, 0)
                       EXCEPT !.arg = DeviceArg(d)]
           r == codeobj(l, arch, id)
       IN IF device[l]
            THEN /\ last' = [call EXCEPT !.raised = TRUE, !.arch = ""]
                 /\ UNCHANGED <<libvars, cachevars, origin, builds, hipfunc_cache>>
          ELSE IF hipfunc_cache[l][d] # NoObj
            THEN /\ last' = [call EXCEPT !.ret = hipfunc_cache[l][d]]
                 /\ UNCHANGED <<libvars, cachevars, origin, builds, hipfunc_cache>>
          ELSE IF r.raised
            THEN /\ last' = [call EXCEPT !.raised = TRUE, !.collector = r.collector,
                                         !.links = r.links, !.sessions = r.sessions]
                 /\ UNCHANGED <<libvars, cachevars, origin, builds, hipfunc_cache>>
          ELSE LET hipfunc == Obj("hipfunc", id, r.ret.parts, FALSE) IN
               /\ StoreCaches(l, r)
               /\ hipfunc_cache' = [hipfunc_cache EXCEPT ![l][d] = hipfunc]
               /\ builds' = id
               /\ last' = [call EXCEPT !.ret = hipfunc, !.collector = r.collector,
                                       !.links = r.links, !.sessions = r.sessions]
               /\ UNCHANGED <<libvars, origin>>

\* ------------------------------------------------------ reduce and rebuild
\* TRUE iff _reduce_states raises: the walk holds a file whose extension is not
\* an LLVM IR one or a tuple of three entries whose third is not one, or the
\* library is not finalized.
reduce_states_raises(l) ==
    LET w == walk_linking_dependencies(l, FALSE) IN
    \/ \E i \in 1..Len(w) :
           \/ w[i].kind = "file" /\ fileext(w[i].ref) \notin LLVM_IR_EXT
           \/ /\ w[i].kind = "tuple"
              /\ Len(TupleTable[w[i].ref]) = 3
              /\ TupleTable[w[i].ref][3] \notin LLVM_IR_EXT
    \/ ~finalized[l]

\* _reduce_states of l, then _rebuild of what it returned into a new object n:
\* the constructor is called with name and entry_name alone, so the role is
\* its default (device=True), there is no module and no dependency; the five
\* caches are those of the reduced state.
rebuild(l, n) ==
    /\ l \in created
    /\ n \notin created
    /\ n = Cardinality(created) + 1
    /\ IF reduce_states_raises(l)
         THEN Raise("reduce_states", l, NoArg)
         ELSE /\ created' = created \cup {n}
              /\ device' = [device EXCEPT ![n] = TRUE]
              /\ module' = [module EXCEPT ![n] = None]
              /\ linking_dependencies' = [linking_dependencies EXCEPT ![n] = <<>>]
              /\ finalized' = [finalized EXCEPT ![n] = TRUE]
              /\ unlinked_amdgpu_llvm_strs_cache' =
                     [unlinked_amdgpu_llvm_strs_cache EXCEPT ![n] = unlinked_amdgpu_llvm_strs_cache[l]]
              /\ linked_amdgpu_llvm_ir_cache' = [linked_amdgpu_llvm_ir_cache EXCEPT ![n] = linked_amdgpu_llvm_ir_cache[l]]
              /\ linked_amdgpu_llvm_ir_with_hipdevicelib_cache' =
                     [linked_amdgpu_llvm_ir_with_hipdevicelib_cache EXCEPT ![n] = linked_amdgpu_llvm_ir_with_hipdevicelib_cache[l]]
              /\ codeobj_cache' = [codeobj_cache EXCEPT ![n] = codeobj_cache[l]]
              /\ linkerinfo_cache' = [linkerinfo_cache EXCEPT ![n] = linkerinfo_cache[l]]
              /\ origin' = [origin EXCEPT ![n] = l]
              /\ last' = Call("rebuild", n, LibNode(l), FALSE)
              /\ UNCHANGED <<builds, hipfunc_cache>>

\* ---------------------------------------------------------- IR as text
\* An IR text is a sequence of atoms, each standing for the characters it
\* spells; the text is their concatenation. A word atom consists of \w
\* characters only. No atom but "\n" holds a line break, none but "*" a star,
\* and the letters of the entry names occur in no other atom.
WordAtoms ==
    {"f", "g", "k", "x", "i", "i8", "0", "1", "5", "ptr", "sext", "ptrtoint", "null", "to",
     "alloca", "addrspacecast", "___numba_hip_tmp"}

\* The atoms of one character that is neither \w nor a line break.
PunctuationAtoms == {"*", " ", "%", "=", ",", "(", ")", "."}

IsWord(a) == a \in WordAtoms

IsStar(a) == a = "*"

IsSpace(a) == a = " "

\* The last index of the run of atoms satisfying P that starts at i (i - 1 if
\* s[i] does not satisfy P).
RunEnd(s, i, P(_)) ==
    CHOOSE j \in (i - 1)..Len(s) :
        /\ \A m \in i..j : P(s[m])
        /\ j = Len(s) \/ ~P(s[j + 1])

\* s from index i on.
From(s, i) == SubSeq(s, i, Len(s))

\* _TYPED_PTR.sub(repl="ptr") matching one star only (\w+\*).
RECURSIVE TYPED_PTR_sub_one_star(_)
TYPED_PTR_sub_one_star(s) ==
    IF s = <<>> THEN <<>>
    ELSE IF ~IsWord(s[1]) THEN <<s[1]>> \o TYPED_PTR_sub_one_star(Tail(s))
    ELSE IF RunEnd(s, 1, IsWord) < Len(s) /\ IsStar(s[RunEnd(s, 1, IsWord) + 1])
      THEN <<"ptr">> \o TYPED_PTR_sub_one_star(From(s, RunEnd(s, 1, IsWord) + 2))
    ELSE SubSeq(s, 1, RunEnd(s, 1, IsWord))
             \o TYPED_PTR_sub_one_star(From(s, RunEnd(s, 1, IsWord) + 1))

\* _TYPED_PTR.sub(string=s, repl="ptr"): from the left, every maximal run of
\* \w characters that a star follows is replaced, with all the stars that
\* follow it, by "ptr"; a run no star follows holds no match.
RECURSIVE TYPED_PTR_sub(_)
TYPED_PTR_sub(s) ==
    IF s = <<>> THEN <<>>
    ELSE IF ~IsWord(s[1]) THEN <<s[1]>> \o TYPED_PTR_sub(Tail(s))
    ELSE IF RunEnd(s, RunEnd(s, 1, IsWord) + 1, IsStar) > RunEnd(s, 1, IsWord)
      THEN <<"ptr">> \o TYPED_PTR_sub(From(s, RunEnd(s, RunEnd(s, 1, IsWord) + 1, IsStar) + 1))
    ELSE SubSeq(s, 1, RunEnd(s, 1, IsWord)) \o TYPED_PTR_sub(From(s, RunEnd(s, 1, IsWord) + 1))

\* Step 2 of _postprocess_llvm_ir: the substitution, made only if the text
\* holds a star.
normalize_pointers(s) ==
    IF \E i \in DOMAIN s : IsStar(s[i]) THEN TYPED_PTR_sub(s) ELSE s

\* str.replace(old, new) for a non-empty old: the occurrences of old, found
\* from the left without overlap, become new.
RECURSIVE replace(_, _, _)
replace(s, old, new) ==
    IF s = <<>> THEN <<>>
    ELSE IF Len(s) >= Len(old) /\ SubSeq(s, 1, Len(old)) = old
      THEN new \o replace(From(s, Len(old) + 1), old, new)
    ELSE <<s[1]>> \o replace(Tail(s), old, new)

\* str.splitlines(): the lines between the line breaks, without an empty last
\* line.
RECURSIVE splitlines(_)
splitlines(s) ==
    IF s = <<>> THEN <<>>
    ELSE IF \A i \in DOMAIN s : s[i] # "\n" THEN <<s>>
    ELSE <<SubSeq(s, 1, RunEnd(s, 1, LAMBDA a : a # "\n"))>>
             \o splitlines(From(s, RunEnd(s, 1, LAMBDA a : a # "\n") + 2))

\* "\n".join(lines).
RECURSIVE join(_)
join(lines) ==
    IF lines = <<>> THEN <<>>
    ELSE IF Len(lines) = 1 THEN lines[1]
    ELSE lines[1] \o <<"\n">> \o join(Tail(lines))

\* sub occurs in line.
Contains(line, sub) ==
    \E i \in 1..(Len(line) - Len(sub) + 1) : SubSeq(line, i, i + Len(sub) - 1) = sub

\* _p_alloca.match(line) for a line without quotes: after white space, "%",
\* then lhs (at most one character of any kind and a run of \w characters),
\* white space, "=", white space, "alloca", white space, and parms, the rest,
\* which is not empty. The result says whether the line matches, and where
\* lhs and parms start and lhs ends. The operators below take the positions
\* found so far.
alloca_parms(line, lhs, lhs_end, spaces, rest) ==
    IF rest <= Len(line) /\ rest > spaces
      THEN [matched |-> TRUE, lhs |-> SubSeq(line, lhs, lhs_end), parms |-> From(line, rest)]
    ELSE IF rest > Len(line) /\ rest - spaces >= 2
      THEN [matched |-> TRUE, lhs |-> SubSeq(line, lhs, lhs_end), parms |-> <<" ">>]
    ELSE [matched |-> FALSE, lhs |-> <<>>, parms |-> <<>>]

alloca_keyword(line, lhs, lhs_end, at) ==
    IF at <= Len(line) /\ line[at] = "alloca"
      THEN alloca_parms(line, lhs, lhs_end, at + 1, RunEnd(line, at + 1, IsSpace) + 1)
      ELSE [matched |-> FALSE, lhs |-> <<>>, parms |-> <<>>]

alloca_equals(line, lhs, lhs_end, at) ==
    IF at <= Len(line) /\ line[at] = "="
      THEN alloca_keyword(line, lhs, lhs_end, RunEnd(line, at + 1, IsSpace) + 1)
      ELSE [matched |-> FALSE, lhs |-> <<>>, parms |-> <<>>]

alloca_lhs(line, lhs, words) ==
    IF RunEnd(line, words, IsWord) >= words
      THEN alloca_equals(line, lhs, RunEnd(line, words, IsWord),
                         RunEnd(line, RunEnd(line, words, IsWord) + 1, IsSpace) + 1)
      ELSE [matched |-> FALSE, lhs |-> <<>>, parms |-> <<>>]

alloca_percent(line, at) ==
    IF at > Len(line) \/ line[at] # "%" THEN [matched |-> FALSE, lhs |-> <<>>, parms |-> <<>>]
    ELSE IF at + 1 <= Len(line) /\ line[at + 1] \in PunctuationAtoms
      THEN alloca_lhs(line, at + 1, at + 2)
    ELSE alloca_lhs(line, at + 1, at + 1)

p_alloca_match(line) == alloca_percent(line, RunEnd(line, 1, IsSpace) + 1)

\* The two lines _alloca_addrspace_correction puts in the place of a matched
\* line.
alloca_rewritten(m) ==
    <<<<"%">> \o m.lhs \o <<"___numba_hip_tmp", " ", "=", " ", "alloca", " ">> \o m.parms
          \o <<",", " ", "addrspace(", "5", ")">>,
      <<"%">> \o m.lhs \o <<" ", "=", " ", "addrspacecast", " ", "ptr", " ", "addrspace(", "5",
                            ")", " ", "%">> \o m.lhs
          \o <<"___numba_hip_tmp", " ", "to", " ", "ptr", " ", "addrspace(", "0", ")">>>>

\* The lines a line becomes: itself, unless it holds "alloca " and matches.
corrected_line(line, m, pluck) == IF pluck /\ m.matched THEN alloca_rewritten(m) ELSE <<line>>

\* The loop of _alloca_addrspace_correction: a line is plucked if it holds
\* "alloca " and does not hold "addrspace(".
RECURSIVE alloca_lines(_)
alloca_lines(lines) ==
    IF lines = <<>> THEN <<>>
    ELSE corrected_line(lines[1], p_alloca_match(lines[1]),
                        Contains(lines[1], <<"alloca", " ">>)
                            /\ ~Contains(lines[1], <<"addrspace(">>))
             \o alloca_lines(Tail(lines))

alloca_addrspace_correction(s) == join(alloca_lines(splitlines(s)))

\* Step 1 of _postprocess_llvm_ir: the entry name is written over the
\* original one, if there is an entry name.
rename_entry(s, original, entry) == IF entry # NoName THEN replace(s, original, entry) ELSE s

\* Step 3: sext of a null pointer becomes ptrtoint.
sext_to_ptrtoint(s) ==
    replace(s, <<"sext", " ", "ptr", " ", "null", " ", "to", " ", "i">>,
            <<"ptrtoint", " ", "ptr", " ", "null", " ", "to", " ", "i">>)

postprocess_llvm_ir(s, original, entry) ==
    alloca_addrspace_correction(
        sext_to_ptrtoint(normalize_pointers(rename_entry(s, original, entry))))

\* ------------------------------------------------------------- specification
RECURSIVE SumLen(_, _)
SumLen(f, S) ==
    IF S = {} THEN 0
    ELSE LET x == CHOOSE y \in S : TRUE IN Len(f[x]) + SumLen(f, S \ {x})

TotalDeps == SumLen(linking_dependencies, Libs)

\* The model's bounds on the objects constructed and the entries appended.
Within(nlibs, ndeps) == Cardinality(created) <= nlibs /\ TotalDeps <= ndeps

\* In Spec and SpecGraph libraries are constructed with the default role
\* (device=True) and callers add the IR file only.
DoInit == \E l \in Libs : init(l, TRUE)

DoAddIrModule(mods) == \E l \in Libs, mod \in mods : add_ir_module(l, mod)

DoAddLinkingDependency ==
    \E l \in Libs, dep \in DepChoices({1}) : add_linking_dependency(l, dep)

DoFinalize == \E l \in Libs : finalize(l)

LifeBound == Within(LifeLibs, LifeDeps)

Next ==
    \/ DoInit /\ LifeBound' /\ UNCHANGED toolvars
    \/ DoAddIrModule(Modules) /\ LifeBound' /\ UNCHANGED toolvars
    \/ DoAddLinkingDependency /\ LifeBound' /\ UNCHANGED toolvars
    \/ DoFinalize /\ LifeBound' /\ UNCHANGED toolvars

Spec == Init /\ [][Next]_vars

\* The calls that do not raise: a raising call changes no library, so these
\* build every dependency graph the program can reach. One module value is
\* handed in.
GraphBound == Within(GraphLibs, GraphDeps) /\ ~last.raised

NextGraph ==
    \/ DoInit /\ GraphBound' /\ UNCHANGED toolvars
    \/ DoAddIrModule({1}) /\ GraphBound' /\ UNCHANGED toolvars
    \/ DoAddLinkingDependency /\ GraphBound' /\ UNCHANGED toolvars
    \/ DoFinalize /\ GraphBound' /\ UNCHANGED toolvars

SpecGraph == Init /\ [][NextGraph]_vars

\* The lifecycle calls that do not raise, of a library of either role, with
\* the IR file and the HIP C++ file as file dependencies and one module value;
\* every get_* call, get_linked_llvm_ir with to_bc at its default (True); and
\* reduction followed by rebuild.
DoInitRole == \E l \in Libs, dev \in BOOLEAN : init(l, dev)

DoAddFileOrLibrary ==
    \E l \in Libs, dep \in DepChoices(DOMAIN PathTable) : add_linking_dependency(l, dep)

DoGetLinkedLlvmIr ==
    \E l \in Libs, arch \in Archs, link_in_hipdevicelib \in BOOLEAN :
        get_linked_llvm_ir(l, arch, TRUE, link_in_hipdevicelib)

DoGetCodeobj == \E l \in Libs, arch \in Archs : get_codeobj(l, arch)

DoRebuild == \E l, n \in Libs : rebuild(l, n)

DoGetUnlinkedLlvmIr == \E l \in Libs, arch \in Archs : get_unlinked_llvm_ir(l, arch)

DoGetHipfunc == \E l \in Libs, d \in DOMAIN DeviceArch : get_hipfunc(l, d)

CacheBound == Within(CacheLibs, CacheDeps) /\ builds <= MaxBuilds

NextCache ==
    \/ DoInitRole /\ Cardinality(created) < CacheInits /\ CacheBound' /\ UNCHANGED toolvars
    \/ DoAddIrModule({1}) /\ CacheBound' /\ ~last'.raised /\ UNCHANGED toolvars
    \/ DoAddFileOrLibrary /\ CacheBound' /\ ~last'.raised /\ UNCHANGED toolvars
    \/ DoFinalize /\ CacheBound' /\ ~last'.raised /\ UNCHANGED toolvars
    \/ DoGetLinkedLlvmIr /\ CacheBound' /\ UNCHANGED toolvars
    \/ DoGetCodeobj /\ CacheBound' /\ UNCHANGED toolvars
    \/ DoRebuild /\ CacheBound' /\ UNCHANGED toolvars

SpecCache == Init /\ [][NextCache]_vars

\* --------------------------------------------------- loading specification
\* One library of either role without dependencies and the library rebuilt
\* from it: the lifecycle calls that do not raise, every get_* call
\* (get_linked_llvm_ir with to_bc at its default) under every current device,
\* and reduction followed by rebuild.
ExecBound == Within(ExecLibs, 0) /\ builds <= ExecBuilds

NextExec ==
    \/ DoInitRole /\ Cardinality(created) < CacheInits /\ ExecBound' /\ UNCHANGED toolvars
    \/ DoAddIrModule({1}) /\ ExecBound' /\ ~last'.raised /\ UNCHANGED toolvars
    \/ DoFinalize /\ ExecBound' /\ ~last'.raised /\ UNCHANGED toolvars
    \/ DoGetUnlinkedLlvmIr /\ ExecBound' /\ UNCHANGED toolvars
    \/ DoGetLinkedLlvmIr /\ ExecBound' /\ UNCHANGED toolvars
    \/ DoGetCodeobj /\ ExecBound' /\ UNCHANGED toolvars
    \/ DoGetHipfunc /\ ExecBound' /\ UNCHANGED toolvars
    \/ DoRebuild /\ ExecBound' /\ UNCHANGED toolvars

SpecExec == Init /\ [][NextExec]_vars

\* ----------------------------------------------------- tuple specification
\* One kernel library, its module and finalization, the HIP C++ file and every
\* tuple of TupleTable as its dependencies (a rejected one included),
\* get_linked_llvm_ir and get_codeobj for one architecture, and reduction
\* followed by rebuild.
DoInitKernel == \E l \in Libs : init(l, FALSE)

DoAddTupleOrHipFile ==
    \E l \in Libs, dep \in {FileNode(2)} \cup {TupleNode(t) : t \in DOMAIN TupleTable} :
        ~device[l] /\ add_linking_dependency(l, dep)

DoGetLinkedLlvmIrTuple ==
    \E l \in Libs : get_linked_llvm_ir(l, "gfx90a", TRUE, FALSE)

DoGetCodeobjTuple == \E l \in Libs : get_codeobj(l, "gfx90a")

TupleBound == Within(TupleLibs, TupleDeps) /\ builds <= TupleBuilds

NextTuple ==
    \/ DoInitKernel /\ Cardinality(created) < CacheInits /\ TupleBound' /\ UNCHANGED toolvars
    \/ DoAddIrModule({1}) /\ TupleBound' /\ ~last'.raised /\ UNCHANGED toolvars
    \/ DoAddTupleOrHipFile /\ TupleBound' /\ UNCHANGED toolvars
    \/ DoFinalize /\ TupleBound' /\ ~last'.raised /\ UNCHANGED toolvars
    \/ DoGetLinkedLlvmIrTuple /\ TupleBound' /\ UNCHANGED toolvars
    \/ DoGetCodeobjTuple /\ TupleBound' /\ UNCHANGED toolvars
    \/ DoRebuild /\ TupleBound' /\ UNCHANGED toolvars

SpecTuple == Init /\ [][NextTuple]_vars

\* ---------------------------------------------------- format specification
\* One kernel library with its module and no dependency; get_linked_llvm_ir
\* with either value of to_bc and of link_in_hipdevicelib; get_codeobj.
DoGetLinkedLlvmIrFormat ==
    \E l \in Libs, arch \in Archs, to_bc \in BOOLEAN, link_in_hipdevicelib \in BOOLEAN :
        get_linked_llvm_ir(l, arch, to_bc, link_in_hipdevicelib)

FormatBound == Within(FormatLibs, 0) /\ builds <= FormatBuilds

NextFormat ==
    \/ DoInitKernel /\ FormatBound' /\ UNCHANGED toolvars
    \/ DoAddIrModule({1}) /\ FormatBound' /\ ~last'.raised /\ UNCHANGED toolvars
    \/ DoFinalize /\ FormatBound' /\ ~last'.raised /\ UNCHANGED toolvars
    \/ DoGetLinkedLlvmIrFormat /\ FormatBound' /\ UNCHANGED toolvars
    \/ DoGetCodeobj /\ FormatBound' /\ UNCHANGED toolvars

SpecFormat == Init /\ [][NextFormat]_vars

\* ==================================================================== claims
\* In a step that is a call, last' is the call made: its operation, receiver,
\* argument and outcome.
Called(op) == last'.op = op

\* C2, as claimed: on a finalized library every add_linking_dependency call
\* raises and leaves the dependency lists as they are, so the list of a
\* finalized library never changes.
C2_NoDependencyAfterFinalize ==
    [][/\ (Called("add_linking_dependency") /\ finalized[last'.lib]) =>
              (last'.raised /\ linking_dependencies' = linking_dependencies)
       /\ \A l \in Libs :
              finalized[l] => linking_dependencies'[l] = linking_dependencies[l]]_vars

\* C7: add_ir_module on a library that owns a module, or that is finalized,
\* raises and leaves every module as it is; no step changes an owned module.
C7_OneModuleSetOnce ==
    [][/\ (Called("add_ir_module")
               /\ (module[last'.lib] # None \/ finalized[last'.lib])) =>
              (last'.raised /\ module' = module)
       /\ \A l \in created : module[l] # None => module'[l] = module[l]]_vars

\* C7 witness: add_ir_module with another module was called on an open library
\* that owns one, and raised.
C7_Witness ==
    /\ last.op = "add_ir_module" /\ last.raised
    /\ ~finalized[last.lib]
    /\ module[last.lib] # None /\ module[last.lib] # last.arg.ref

\* C8: a finalized library stays finalized in every step, and finalize() on a
\* finalized library raises and changes no library.
C8_FinalizeOneWay ==
    [][/\ \A l \in Libs : finalized[l] => finalized'[l]
       /\ (Called("finalize") /\ finalized[last'.lib]) =>
              (last'.raised /\ UNCHANGED libvars)]_vars

\* C8 witness: finalize() was called on a finalized library, and raised.
C8_Witness == last.op = "finalize" /\ last.raised /\ finalized[last.lib]

\* C9: adding a library that is not finalized to an open library raises and
\* changes no library.
C9_UnfinalizedDependencyRaises ==
    [][(/\ Called("add_linking_dependency") /\ last'.arg.kind = "lib"
        /\ ~finalized[last'.arg.ref] /\ ~finalized[last'.lib]) =>
           (last'.raised /\ UNCHANGED libvars)]_vars

\* C9 witness: an open library was asked to add another, open library, and the
\* call raised.
C9_Witness ==
    /\ last.op = "add_linking_dependency" /\ last.raised /\ last.arg.kind = "lib"
    /\ last.arg.ref # last.lib
    /\ ~finalized[last.arg.ref] /\ ~finalized[last.lib]

\* The libraries in the dependency list of l.
DirectLibs(l) ==
    {linking_dependencies[l][i].ref :
        i \in {k \in 1..Len(linking_dependencies[l]) :
                   linking_dependencies[l][k].kind = "lib"}}

\* The libraries reached from l through one or more dependency lists.
RECURSIVE ReachedIn(_, _)
ReachedIn(S, n) ==
    IF n = 0 THEN S
    ELSE ReachedIn(S \cup UNION {DirectLibs(x) : x \in S}, n - 1)

ReachedFrom(l) == ReachedIn(DirectLibs(l), Cardinality(Libs))

\* C10: no library is reached from itself through dependency lists.
C10_Acyclic == \A l \in created : l \notin ReachedFrom(l)

\* C10 witness: a library was asked to add a library from which it is reached
\* (or itself), which would close a cycle, and the call raised.
C10_Witness ==
    /\ last.op = "add_linking_dependency" /\ last.raised /\ last.arg.kind = "lib"
    /\ last.lib \in ReachedFrom(last.arg.ref) \cup {last.arg.ref}
    /\ \E l \in created : DirectLibs(l) # {}

\* The libraries whose linker inputs can be collected.
Collectable == {l \in created : ~linker_inputs_raise(l)}

\* The modules of the entries of u at the positions keep(u, i) selects, in order.
Kept(u, keep(_, _)) ==
    LET f[i \in 0..Len(u)] ==
            IF i = 0 THEN <<>>
            ELSE IF keep(u, i) THEN Append(f[i - 1], u[i].dep_mod) ELSE f[i - 1]
    IN f[Len(u)]

IsFirstOccurrence(u, i) == \A j \in 1..(i - 1) : u[j].dep_id # u[i].dep_id

IsLastOccurrence(u, i) == \A j \in (i + 1)..Len(u) : u[j].dep_id # u[i].dep_id

\* The position of module e in the list out.
Pos(out, e) == CHOOSE k \in 1..Len(out) : out[k] = e

\* C3, as claimed: deduplication keeps the earliest occurrence of every identity
\* key at its position and drops the later ones.
C3_KeepsEarliest ==
    \A l \in Collectable, a \in Archs :
        LET u == unprocessed_result(l, a) IN
        remove_duplicates(u) = Kept(u, IsFirstOccurrence)

\* C3, amended: deduplication keeps the latest occurrence of every identity key
\* at its position and drops every earlier occurrence; the kept entries stay in
\* their relative order.
C3_KeepsLatest ==
    \A l \in Collectable, a \in Archs :
        LET u == unprocessed_result(l, a) IN
        remove_duplicates(u) = Kept(u, IsLastOccurrence)

\* C3 witness: a collected list holds an identity twice with an entry of another
\* identity in between.
C3_Witness ==
    \E l \in Collectable, a \in Archs :
        LET u == unprocessed_result(l, a) IN
        \E i, j, k \in 1..Len(u) :
            i < j /\ j < k /\ u[i].dep_id = u[k].dep_id /\ u[j].dep_id # u[i].dep_id

\* The graph of C4: A depends on B then C, C depends on B, B on nothing.
IsDiamond(A, B, C) ==
    /\ A # B /\ A # C /\ B # C
    /\ linking_dependencies[A] = <<LibNode(B), LibNode(C)>>
    /\ linking_dependencies[C] = <<LibNode(B)>>
    /\ linking_dependencies[B] = <<>>

\* C4: for A -> [B, C], C -> [B] the collected sequence is [A, B, C, B] before
\* deduplication and [A, C, B] after it.
C4_DiamondExample ==
    \A A, B, C \in Collectable, a \in Archs :
        IsDiamond(A, B, C) =>
            /\ [i \in 1..Len(unprocessed_result(A, a)) |-> unprocessed_result(A, a)[i].dep_id]
                   = <<LibNode(A), LibNode(B), LibNode(C), LibNode(B)>>
            /\ get_linker_inputs(A, a)
                   = <<dep_mod(LibNode(A), a), dep_mod(LibNode(C), a), dep_mod(LibNode(B), a)>>

\* C4 witness: the graph has been built and its libraries own their modules.
C4_Witness == \E A, B, C \in Collectable : IsDiamond(A, B, C)

NotReachedAfter(l, a, X, Y) ==
    LET u == unprocessed_result(l, a)
        fy == CHOOSE k \in 1..Len(u) :
                  u[k].dep_id = dep_id(Y) /\ IsFirstOccurrence(u, k)
    IN \A k \in fy..Len(u) : u[k].dep_id # dep_id(X)

C1_SecondCallIsCached ==
    [][(/\ last.op = "get_linked_llvm_ir"
        /\ ~last.raised
        /\ Called("get_linked_llvm_ir")
        /\ last'.lib = last.lib
        /\ last'.arch = last.arch
        /\ last'.to_bc = last.to_bc
        /\ last'.link_in_hipdevicelib = last.link_in_hipdevicelib)
       => (/\ ~last'.raised
           /\ last'.ret = last.ret
           /\ ~last'.collector
           /\ last'.links = 0)]_vars

\* C5: get_codeobj of a library rebuilt from the reduced state of a kernel
\* library returns, for an architecture whose code object was built before
\* the reduction, that code object; it does not raise.
C5_RebuiltReturnsSameCodeobj ==
    [][(/\ Called("get_codeobj")
        /\ origin[last'.lib] # 0
        /\ ~device[origin[last'.lib]]
        /\ codeobj_cache[last'.lib][last'.arch] # NoObj)
       => (/\ ~last'.raised
           /\ last'.ret = codeobj_cache[origin[last'.lib]][last'.arch])]_vars

\* ---------------------------------------------------------- claims: get_*
GetOps == {"get_unlinked_llvm_ir", "get_linked_llvm_ir", "get_codeobj", "get_hipfunc"}

\* C11: get_unlinked_llvm_ir, get_linked_llvm_ir, get_codeobj and get_hipfunc
\* called on a library that is not finalized raise, return nothing and leave
\* every cache as it is.
C11_GetRequiresFinalized ==
    [][(last'.op \in GetOps /\ ~finalized[last'.lib])
       => (/\ last'.raised
           /\ last'.ret = NoObj
           /\ UNCHANGED <<cachevars, hipfunc_cache>>)]_vars

\* C12: get_codeobj and get_hipfunc on a device function raise, whatever the
\* architecture or current device and whatever the caches hold, without
\* making a Linker, running the collector or linking, and leave every cache
\* as it is; get_hipfunc raises before it has read the context.
C12_DeviceFunctionRaises ==
    [][(last'.op \in {"get_codeobj", "get_hipfunc"} /\ device[last'.lib])
       => (/\ last'.raised
           /\ last'.ret = NoObj
           /\ last'.sessions = 0 /\ ~last'.collector /\ last'.links = 0
           /\ last'.op = "get_hipfunc" => last'.arch = ""
           /\ UNCHANGED <<cachevars, hipfunc_cache>>)]_vars

\* C12 witness: get_codeobj raised on a device function whose code object
\* cache holds an entry for the architecture asked for.
C12_Witness ==
    /\ last.op = "get_codeobj" /\ last.raised
    /\ device[last.lib]
    /\ codeobj_cache[last.lib][last.arch] # NoObj

\* C13: on a kernel, a get_codeobj that finds no code object under arch and
\* does not raise makes exactly one Linker and stores what it returns, and a
\* log, under arch; one that finds a code object returns it, makes no Linker
\* and changes no cache; the code object cache and the log cache of every
\* library hold entries for the same architectures.
C13_CodeobjCachedWithLog ==
    [][/\ (Called("get_codeobj") /\ ~device[last'.lib] /\ ~last'.raised) =>
              IF codeobj_cache[last'.lib][last'.arch] = NoObj
                THEN /\ last'.sessions = 1
                     /\ last'.ret # NoObj
                     /\ codeobj_cache'[last'.lib][last'.arch] = last'.ret
                     /\ linkerinfo_cache'[last'.lib][last'.arch] # NoObj
                ELSE /\ last'.ret = codeobj_cache[last'.lib][last'.arch]
                     /\ last'.sessions = 0
                     /\ UNCHANGED cachevars
       /\ \A l \in Libs, a \in Archs :
              (codeobj_cache'[l][a] # NoObj) <=> (linkerinfo_cache'[l][a] # NoObj)]_vars

\* C13 witness: get_codeobj on a kernel was answered from the cache.
C13_Witness ==
    /\ last.op = "get_codeobj" /\ ~last.raised /\ last.sessions = 0
    /\ ~device[last.lib]
    /\ last.ret = codeobj_cache[last.lib][last.arch] /\ last.ret # NoObj

\* The entries the five caches of library l hold under architecture a.
Slots(l, a) ==
    <<unlinked_amdgpu_llvm_strs_cache[l][a], linked_amdgpu_llvm_ir_cache[l][a],
      linked_amdgpu_llvm_ir_with_hipdevicelib_cache[l][a], codeobj_cache[l][a],
      linkerinfo_cache[l][a]>>

\* C14: get_codeobj and get_linked_llvm_ir for an architecture leave what the
\* caches hold under every other architecture as it is.
C14_ArchitectureIsolation ==
    [][last'.op \in {"get_codeobj", "get_linked_llvm_ir"}
       => \A l \in Libs, a \in Archs : a # last'.arch => Slots(l, a)' = Slots(l, a)]_vars

\* C14 witness: a call for one architecture built and cached an object while
\* the caches held an entry under the other architecture.
C14_Witness ==
    /\ last.op \in {"get_codeobj", "get_linked_llvm_ir"} /\ ~last.raised
    /\ last.ret.id = builds
    /\ \E a \in Archs :
           /\ a # last.arch
           /\ linked_amdgpu_llvm_ir_cache[last.lib][a] # NoObj
           /\ codeobj_cache[last.lib][a] # NoObj

\* ------------------------------------------------------- claims: the walk
\* How often x occurs in the sequence s.
Count(s, x) == Cardinality({i \in DOMAIN s : s[i] = x})

\* C15: the pre-order walk of a library yields it first, the post-order walk
\* yields it last, and both walks yield every node equally often.
C15_WalkOrders ==
    \A l \in created :
        LET pre == walk_linking_dependencies(l, FALSE)
            post == walk_linking_dependencies(l, TRUE)
        IN /\ pre[1] = LibNode(l)
           /\ post[Len(post)] = LibNode(l)
           /\ Len(pre) = Len(post)
           /\ \A i \in DOMAIN pre : Count(pre, pre[i]) = Count(post, pre[i])

\* C15 witness: a library depends on a library that has a dependency of its
\* own and is reached twice, so that the two walks differ.
C15_Witness ==
    \E l \in created :
        LET pre == walk_linking_dependencies(l, FALSE) IN
        /\ pre # walk_linking_dependencies(l, TRUE)
        /\ \E i \in DOMAIN pre :
               /\ pre[i].kind = "lib" /\ pre[i].ref # l
               /\ linking_dependencies[pre[i].ref] # <<>>
               /\ Count(pre, pre[i]) > 1

\* ------------------------------------------------------------ linker cache
\* Buffers are sequences of words. An LLVM IR buffer, a human-readable Clang
\* offload bundle with one part per architecture, and a HIP C++ source.
IrBuffer == <<"irbuf">>
OffloadBundle == <<"bundle">>
HipSource == <<"hipsrc">>

\* opts of _compile_hiprtc_program: None, or a list of options, each option a
\* sequence of words.
NoneOpts == [none |-> TRUE, items |-> <<>>]
ListOpts(items) == [none |-> FALSE, items |-> items]

\* "".join(opts) of a list.
RECURSIVE joined(_)
joined(items) == IF items = <<>> THEN <<>> ELSE Head(items) \o joined(Tail(items))

\* llvmutils.is_human_readable_clang_offload_bundle(buf).
is_human_readable_clang_offload_bundle(buf) == buf = OffloadBundle

\* _extract_if_buffer_is_clang_offload_bundle: the part of a bundle for the
\* architecture, any other buffer as it is.
extract_if_buffer_is_clang_offload_bundle(buf, amdgpu_arch) ==
    IF is_human_readable_clang_offload_bundle(buf) THEN buf \o <<amdgpu_arch>> ELSE buf

\* hiprtc.compile: the bitcode of the source for the architecture and options.
hiprtc_compile(source, amdgpu_arch, items) == <<"bc">> \o source \o <<amdgpu_arch>> \o joined(items)

\* The key of the linker cache for a buffer, an architecture and joined opts.
CacheKey(buffer, arch, opts) == [buffer |-> buffer, arch |-> arch, opts |-> opts]

\* The entries of cache stored under key.
Stored(cache, key) == {e \in cache : e.key = key}

\* linkercache.get_or_insert_entry_for_buffer: the entry under the key if
\* there is one; otherwise KeyError if no entry is handed in (entry = 0), and
\* the entry handed in, now stored, if one is.
get_or_insert_entry_for_buffer(cache, key, entry) ==
    IF Stored(cache, key) # {}
      THEN [raised |-> FALSE, ret |-> (CHOOSE e \in Stored(cache, key) : TRUE).entry,
            cache |-> cache]
    ELSE IF entry = 0 THEN [raised |-> TRUE, ret |-> 0, cache |-> cache]
    ELSE [raised |-> FALSE, ret |-> entry, cache |-> cache \cup {[key |-> key, entry |-> entry]}]

\* _process_buf with made wrappers made before: the entry of the linker
\* cache under the buffer, if there is one; otherwise a new wrapper of the
\* buffer, or of its part for the architecture, stored under what is wrapped.
process_buf(cache, buf, amdgpu_arch, made) ==
    LET found == get_or_insert_entry_for_buffer(cache, CacheKey(buf, amdgpu_arch, <<>>), 0)
        stored == get_or_insert_entry_for_buffer(
                      cache,
                      CacheKey(extract_if_buffer_is_clang_offload_bundle(buf, amdgpu_arch),
                               amdgpu_arch, <<>>),
                      made + 1)
    IN IF USE_LINKER_CACHE /\ ~found.raised
         THEN [ret |-> found.ret, wraps |-> 0, cache |-> cache]
         ELSE [ret |-> made + 1, wraps |-> 1,
               cache |-> IF USE_LINKER_CACHE THEN stored.cache ELSE cache]

\* The outcome of a handler method.
Resolved(raised, ret, compiles, wraps, cache) ==
    [raised |-> raised, ret |-> ret, compiles |-> compiles, wraps |-> wraps, cache |-> cache]

\* _compile_hiprtc_program past the look-up: the source is compiled, the
\* bitcode goes through _process_buf (done: its outcome), and the result is
\* stored under the source.
compiled_and_stored(done, key) ==
    LET stored == get_or_insert_entry_for_buffer(done.cache, key, done.ret)
    IN IF USE_LINKER_CACHE
         THEN Resolved(FALSE, stored.ret, 1, done.wraps, stored.cache)
         ELSE Resolved(FALSE, done.ret, 1, done.wraps, done.cache)

\* _compile_hiprtc_program: with the linker cache, "".join(opts) raises
\* TypeError for opts None, and an entry under the source, the architecture
\* and the joined opts is returned if there is one.
compile_hiprtc_program(cache, source, amdgpu_arch, opts, made) ==
    IF USE_LINKER_CACHE /\ opts.none THEN Resolved(TRUE, 0, 0, 0, cache)
    ELSE IF /\ USE_LINKER_CACHE
            /\ Stored(cache, CacheKey(source, amdgpu_arch, joined(opts.items))) # {}
      THEN Resolved(FALSE,
                    get_or_insert_entry_for_buffer(
                        cache, CacheKey(source, amdgpu_arch, joined(opts.items)), 0).ret,
                    0, 0, cache)
    ELSE compiled_and_stored(
             process_buf(cache, hiprtc_compile(source, amdgpu_arch, opts.items),
                         amdgpu_arch, made),
             CacheKey(source, amdgpu_arch, joined(opts.items)))

\* The call leaves the cache and the number of wrappers of r and is recorded.
Resolve(op, buffer, arch, opts, r) ==
    /\ linkercache' = r.cache
    /\ wrappers' = wrappers + r.wraps
    /\ resolution' = [op |-> op, buffer |-> buffer, arch |-> arch, opts |-> opts,
                      raised |-> r.raised, ret |-> r.ret, compiles |-> r.compiles,
                      wraps |-> r.wraps]
    /\ UNCHANGED <<libvars, cachevars, hipfunc_cache, origin, builds, last, textvars,
                   modulevars>>

\* ------------------------------------------------ linker cache specification
\* The handlers of any libraries resolve, in any order, the IR buffer and the
\* bundle, and the HIP C++ source with opts None (a tuple without options),
\* no options (a file) and two lists of options of the same joined text.
LinkerBuffers == {IrBuffer, OffloadBundle}

LinkerOpts ==
    {NoneOpts, ListOpts(<<>>), ListOpts(<< <<"-O3">>, <<"-g">> >>),
     ListOpts(<< <<"-O3", "-g">> >>)}

DoProcessBuf ==
    \E buf \in LinkerBuffers, arch \in Archs :
        LET r == process_buf(linkercache, buf, arch, wrappers) IN
        Resolve("_process_buf", buf, arch, NoneOpts,
                Resolved(FALSE, r.ret, 0, r.wraps, r.cache))

DoCompileHiprtcProgram ==
    \E arch \in Archs, opts \in LinkerOpts :
        Resolve("_compile_hiprtc_program", HipSource, arch, opts,
                compile_hiprtc_program(linkercache, HipSource, arch, opts, wrappers))

LinkerBound == wrappers <= MaxWrappers

NextLinker ==
    \/ DoProcessBuf /\ LinkerBound'
    \/ DoCompileHiprtcProgram /\ LinkerBound'

SpecLinker == Init /\ [][NextLinker]_vars

\* ------------------------------------------------------ text specification
\* The pieces IR texts are made of: typed pointers, a star and a name on their
\* own, white space, a line break, the sext idiom on a typed and on an opaque
\* pointer, and allocas without address space: of i8, under a name with a dot
\* in it, and of a pointer into address space 1.
PieceTable ==
    << <<"i8", "*">>,
       <<"*">>,
       <<"f">>,
       <<" ">>,
       <<"\n">>,
       <<"sext", " ", "i8", "*", " ", "null", " ", "to", " ", "i">>,
       <<"sext", " ", "ptr", " ", "null", " ", "to", " ", "i">>,
       <<"%", "x", " ", "=", " ", "alloca", " ", "i8">>,
       <<"%", "x", ".", "x", " ", "=", " ", "alloca", " ", "i8">>,
       <<"%", "x", " ", "=", " ", "alloca", " ", "ptr", " ", "addrspace(", "1", ")">> >>

RECURSIVE TextsOf(_)
TextsOf(n) ==
    IF n = 0 THEN {<<>>}
    ELSE TextsOf(n - 1)
             \cup {t \o PieceTable[p] : t \in TextsOf(n - 1), p \in DOMAIN PieceTable}

\* The pairs (_original_entry_name, _entry_name): no names, the names as
\* init_entry_name sets them, and as change_entry_name leaves them, the new
\* name without and with the original one in it.
NamePairs ==
    {<<NoName, NoName>>, <<<<"f">>, <<"f">>>>, <<<<"f">>, <<"g">>>>, <<<<"f">>, <<"f", "k">>>>}

\* A text, a pair of names and the function to apply: step 2 alone, or
\* _postprocess_llvm_ir.
InitText ==
    /\ InitLibraries
    /\ InitLinker
    /\ InitNoModule
    /\ \E t \in TextsOf(MaxPieces), names \in NamePairs :
           /\ llvm_str = <<t>>
           /\ original_entry_name = names[1]
           /\ entry_name = names[2]
    /\ transform \in {"normalize_pointers", "postprocess_llvm_ir", "alloca_addrspace_correction"}
    /\ transform # "postprocess_llvm_ir" => entry_name = NoName

DoNormalizePointers ==
    /\ transform = "normalize_pointers"
    /\ Len(llvm_str) <= MaxApplications
    /\ llvm_str' = Append(llvm_str, normalize_pointers(llvm_str[Len(llvm_str)]))
    /\ UNCHANGED <<libvars, cachevars, hipfunc_cache, origin, builds, last,
                   original_entry_name, entry_name, transform, linkervars,
                   modulevars>>

DoPostprocessLlvmIr ==
    /\ transform = "postprocess_llvm_ir"
    /\ Len(llvm_str) <= MaxApplications
    /\ llvm_str' = Append(llvm_str, postprocess_llvm_ir(llvm_str[Len(llvm_str)],
                                                        original_entry_name, entry_name))
    /\ UNCHANGED <<libvars, cachevars, hipfunc_cache, origin, builds, last,
                   original_entry_name, entry_name, transform, linkervars,
                   modulevars>>

DoAllocaAddrspaceCorrection ==
    /\ transform = "alloca_addrspace_correction"
    /\ Len(llvm_str) <= MaxApplications
    /\ llvm_str' = Append(llvm_str, alloca_addrspace_correction(llvm_str[Len(llvm_str)]))
    /\ UNCHANGED <<libvars, cachevars, hipfunc_cache, origin, builds, last,
                   original_entry_name, entry_name, transform, linkervars,
                   modulevars>>

NextText ==
    \/ DoNormalizePointers
    \/ DoPostprocessLlvmIr
    \/ DoAllocaAddrspaceCorrection

SpecText == InitText /\ [][NextText]_vars

\* ------------------------------------------------------ the module's content
\* A function of an llvmlite module: a declaration or a definition, with the
\* linkage, calling convention and attributes it is printed with.
Function(name, is_declaration, attributes) ==
    [name |-> name, is_declaration |-> is_declaration, linkage |-> "",
     calling_convention |-> "", attributes |-> attributes]

\* comgrutils: visibility and calling convention by role.
llvm_amdgpu_kernel_visibility == "protected"
llvm_amdgpu_kernel_calling_convention == "amdgpu_kernel"
llvm_amdgpu_device_fun_visibility == "linkonce_odr"

\* comgrutils: the attributes derived from the architecture.
target_cpu(amdgpu_arch) ==
    IF amdgpu_arch = "gfx90a" THEN "target-cpu=gfx90a" ELSE "target-cpu=gfx1100"

get_llvm_kernel_attributes(amdgpu_arch) ==
    {"amdgpu-flat-work-group-size=1,1024", target_cpu(amdgpu_arch)}

get_llvm_device_fun_attributes(amdgpu_arch) == {target_cpu(amdgpu_arch)}

\* amdgcn: the data layout a new module has, and the one of an architecture.
DATA_LAYOUT == "datalayout"

AMDGPUTargetMachine_data_layout(amdgpu_arch) ==
    IF amdgpu_arch = "gfx90a" THEN "datalayout-gfx90a" ELSE "datalayout-gfx1100"

\* _apply_llvm_amdgpu_modifications: the module it leaves. set.add puts each
\* attribute into the set the function has.
apply_llvm_amdgpu_modifications_every_definition(m, is_device, original, amdgpu_arch) ==
    LET fun_linkage == IF is_device THEN llvm_amdgpu_device_fun_visibility
                       ELSE llvm_amdgpu_kernel_visibility
        fun_call_conv == IF is_device THEN "" ELSE llvm_amdgpu_kernel_calling_convention
        fun_attributes == IF is_device THEN get_llvm_device_fun_attributes(amdgpu_arch)
                          ELSE get_llvm_kernel_attributes(amdgpu_arch)
    IN  [data_layout |-> AMDGPUTargetMachine_data_layout(amdgpu_arch),
         functions |->
             [i \in DOMAIN m.functions |->
                 IF ~m.functions[i].is_declaration
                 THEN [m.functions[i] EXCEPT !.linkage = fun_linkage,
                                             !.calling_convention = fun_call_conv,
                                             !.attributes = @ \cup fun_attributes]
                 ELSE m.functions[i]]]

apply_llvm_amdgpu_modifications(m, is_device, original, amdgpu_arch) ==
    LET fun_linkage == IF is_device THEN llvm_amdgpu_device_fun_visibility
                       ELSE llvm_amdgpu_kernel_visibility
        fun_call_conv == IF is_device THEN "" ELSE llvm_amdgpu_kernel_calling_convention
        fun_attributes == IF is_device THEN get_llvm_device_fun_attributes(amdgpu_arch)
                          ELSE get_llvm_kernel_attributes(amdgpu_arch)
    IN  [data_layout |-> AMDGPUTargetMachine_data_layout(amdgpu_arch),
         functions |->
             [i \in DOMAIN m.functions |->
                 IF ~m.functions[i].is_declaration /\ m.functions[i].name = original
                 THEN [m.functions[i] EXCEPT !.linkage = fun_linkage,
                                             !.calling_convention = fun_call_conv,
                                             !.attributes = @ \cup fun_attributes]
                 ELSE m.functions[i]]]

\* str(module): the data layout, then a line for each function: define or
\* declare, the linkage and the calling convention if it has them, its name,
\* and its attributes in sorted order.
AttributeOrder ==
    <<"amdgpu-flat-work-group-size=1,1024", "noinline", "target-cpu=gfx1100",
      "target-cpu=gfx90a">>

RECURSIVE attribute_list(_, _)
attribute_list(attributes, i) ==
    IF i > Len(AttributeOrder) THEN <<>>
    ELSE (IF AttributeOrder[i] \in attributes THEN <<" ", AttributeOrder[i]>> ELSE <<>>)
         \o attribute_list(attributes, i + 1)

descr(fn) ==
    <<IF fn.is_declaration THEN "declare" ELSE "define">>
    \o (IF fn.linkage # "" THEN <<" ", fn.linkage>> ELSE <<>>)
    \o (IF fn.calling_convention # "" THEN <<" ", fn.calling_convention>> ELSE <<>>)
    \o <<" ", "@">> \o fn.name \o attribute_list(fn.attributes, 1) \o <<"\n">>

RECURSIVE descrs(_)
descrs(functions) ==
    IF functions = <<>> THEN <<>> ELSE descr(functions[1]) \o descrs(Tail(functions))

module_str(m) ==
    <<"target", " ", "datalayout", " ", "=", " ", m.data_layout, "\n">> \o descrs(m.functions)

\* get_unlinked_llvm_ir: the module it leaves and the text it returns.
unlinked_llvm_ir_of(m, is_device, original, entry, amdgpu_arch) ==
    LET modified == apply_llvm_amdgpu_modifications(m, is_device, original, amdgpu_arch)
    IN  [module |-> modified,
         llvm_ir |-> postprocess_llvm_ir(module_str(modified), original, entry)]

\* ---------------------------------------------------- module specification
\* The functions a module is made of: two names, declared or defined, with no
\* attribute or one the compiler driver gave.
FunctionTable ==
    {Function(name, is_declaration, attributes) :
        name \in {<<"f">>, <<"g">>}, is_declaration \in BOOLEAN,
        attributes \in {{}, {"noinline"}}}

\* The modules of up to MaxFunctions functions of different names.
ModulesOf(n) ==
    {fs \in UNION {[1..k -> FunctionTable] : k \in 1..n} :
        \A i, j \in DOMAIN fs : i # j => fs[i].name # fs[j].name}

IsDefined(m, name) ==
    \E i \in DOMAIN m.functions :
        ~m.functions[i].is_declaration /\ m.functions[i].name = name

\* Library 1 is a kernel or a device function, owns a module, and was
\* constructed without an entry name or with the name of a function the
\* module defines.
InitModule ==
    /\ created = {1}
    /\ device \in {[l \in Libs |-> d] : d \in BOOLEAN}
    /\ module = [l \in Libs |-> IF l = 1 THEN 1 ELSE None]
    /\ linking_dependencies = [l \in Libs |-> <<>>]
    /\ finalized = [l \in Libs |-> FALSE]
    /\ unlinked_amdgpu_llvm_strs_cache = [l \in Libs |-> EmptyCache]
    /\ linked_amdgpu_llvm_ir_cache = [l \in Libs |-> EmptyCache]
    /\ linked_amdgpu_llvm_ir_with_hipdevicelib_cache = [l \in Libs |-> EmptyCache]
    /\ codeobj_cache = [l \in Libs |-> EmptyCache]
    /\ linkerinfo_cache = [l \in Libs |-> EmptyCache]
    /\ hipfunc_cache = [l \in Libs |-> NoFuncs]
    /\ origin = [l \in Libs |-> 0]
    /\ builds = 0
    /\ last = Call("none", 0, NoArg, FALSE)
    /\ llvm_str = <<>>
    /\ transform = ""
    /\ InitLinker
    /\ \E fs \in ModulesOf(MaxFunctions), name \in {NoName, <<"f">>, <<"g">>} :
           /\ ir_module = [data_layout |-> DATA_LAYOUT, functions |-> fs]
           /\ name # NoName => IsDefined(ir_module, name)
           /\ original_entry_name = name
           /\ entry_name = name
    /\ emitted = NoEmitted
    /\ calls = 0

ModuleCall(op, arch, raised, ir) ==
    /\ emitted' = [op |-> op, arch |-> arch, raised |-> raised, ir |-> ir]
    /\ calls' = calls + 1
    /\ UNCHANGED <<libvars, cachevars, hipfunc_cache, origin, builds, last, llvm_str,
                   transform, linkervars>>

\* The names a caller renames the entry point to.
NewEntryNames == {<<"g">>, <<"h">>, <<"f", "k">>}

DoChangeEntryName ==
    \E new_entry_name \in NewEntryNames :
        IF entry_name = NoName \/ original_entry_name = NoName
        THEN /\ ModuleCall("change_entry_name", "", TRUE, <<>>)
             /\ UNCHANGED <<original_entry_name, entry_name, ir_module>>
        ELSE /\ original_entry_name' = entry_name
             /\ entry_name' = new_entry_name
             /\ ModuleCall("change_entry_name", "", FALSE, <<>>)
             /\ UNCHANGED ir_module

DoApplyLlvmAmdgpuModifications ==
    \E amdgpu_arch \in Archs :
        /\ ir_module' = apply_llvm_amdgpu_modifications(ir_module, device[1],
                                                        original_entry_name, amdgpu_arch)
        /\ ModuleCall("_apply_llvm_amdgpu_modifications", amdgpu_arch, FALSE, <<>>)
        /\ UNCHANGED <<original_entry_name, entry_name>>

DoUnlinkedLlvmIrOf ==
    \E amdgpu_arch \in Archs :
        LET r == unlinked_llvm_ir_of(ir_module, device[1], original_entry_name,
                                     entry_name, amdgpu_arch)
        IN  /\ ir_module' = r.module
            /\ ModuleCall("get_unlinked_llvm_ir", amdgpu_arch, FALSE, r.llvm_ir)
            /\ UNCHANGED <<original_entry_name, entry_name>>

ModuleBound == calls <= MaxCalls

NextModule ==
    \/ DoChangeEntryName /\ ModuleBound'
    \/ DoApplyLlvmAmdgpuModifications /\ ModuleBound'
    \/ DoUnlinkedLlvmIrOf /\ ModuleBound'

SpecModule == InitModule /\ [][NextModule]_vars

\* ------------------------------------------------------ tuple dependencies
\* The six tuple forms as the specification tabulates them: what a tuple is to
\* be resolved as ("ir": a module of LLVM IR/BC, "hiprtc": device source to
\* compile), and with which options ("None": none).
IsLength(v) == IsInt(v) \/ IsNone(v)

IsOpts(v) == IsStr(v) \/ IsList(v)

Form(via, opts) == [via |-> via, opts |-> opts]

Tokens(v) == IF IsStr(v) THEN shlex_split(v) ELSE ListItems(v)

TupleForm(dep) ==
    IF Len(dep) = 2 /\ dep[2] = "ll" THEN Form("ir", "None")
    ELSE IF Len(dep) = 2 /\ IsLength(dep[2]) THEN Form("ir", "None")
    ELSE IF Len(dep) = 2 /\ dep[2] = "hip" THEN Form("hiprtc", "None")
    ELSE IF Len(dep) = 3 /\ dep[2] = "hip" /\ IsOpts(dep[3])
      THEN Form("hiprtc", Tokens(dep[3]))
    ELSE IF Len(dep) = 3 /\ IsLength(dep[2]) /\ dep[3] = "hip" THEN Form("hiprtc", "None")
    ELSE IF Len(dep) = 4 /\ IsLength(dep[2]) /\ dep[3] = "hip" /\ IsOpts(dep[4])
      THEN Form("hiprtc", Tokens(dep[4]))
    ELSE Form("malformed", "None")

Malformed(dep) == TupleForm(dep).via = "malformed"

\* The tuples among the direct dependencies of l.
TuplesOf(l) ==
    {linking_dependencies[l][i].ref : i \in {j \in DOMAIN linking_dependencies[l] :
                                                linking_dependencies[l][j].kind = "tuple"}}

\* A tuple of one of the six forms whose file, if it names one, can be read.
WellFormed(t) ==
    /\ ~Malformed(TupleTable[t])
    /\ IsStr(TupleTable[t][2]) => TupleTable[t][1] \in Readable

\* A call of get_linked_llvm_ir that ran the collector on a library that owns
\* a module.
Collecting(l) ==
    /\ Called("get_linked_llvm_ir")
    /\ last'.lib = l
    /\ last'.collector
    /\ module[l] # None

\* C16: when the collector runs over a library whose tuple dependencies all
\* have one of the six forms, the call does not raise, and every such tuple
\* is among the linked parts as the kind of input its form says, with the
\* options its form says: (path, "ll") and (buffer, len) as LLVM IR/BC, the
\* four "hip" forms as device source, a string of options tokenized, a list as
\* it is, none when absent.
C16_TupleFormsResolved ==
    [][\A l \in created :
          (Collecting(l) /\ TuplesOf(l) # {} /\ \A t \in TuplesOf(l) : WellFormed(t))
          => /\ ~last'.raised
             /\ \A t \in TuplesOf(l) :
                    \E k \in DOMAIN last'.ret.parts :
                        /\ last'.ret.parts[k].src = TupleNode(t)
                        /\ last'.ret.parts[k].via = TupleForm(TupleTable[t]).via
                        /\ last'.ret.parts[k].opts = TupleForm(TupleTable[t]).opts]_vars

\* A call of get_linked_llvm_ir or get_codeobj that ran the collector on a
\* library that owns a module.
CollectorRan(l) ==
    /\ Called("get_linked_llvm_ir") \/ Called("get_codeobj")
    /\ last'.lib = l
    /\ last'.collector
    /\ module[l] # None

ConfigurationErrors == {"ValueError", "TypeError"}

\* C17: a library whose tuple dependencies are all malformed: the call that
\* collects its dependencies raises a ValueError or a TypeError and returns
\* no module.
C17_MalformedTupleRejected ==
    [][\A l \in created :
          (CollectorRan(l) /\ TuplesOf(l) # {}
             /\ \A t \in TuplesOf(l) : Malformed(TupleTable[t]))
          => /\ last'.raised
             /\ last'.error \in ConfigurationErrors
             /\ last'.ret = NoObj]_vars

\* A device-source dependency: a file whose extension is not an LLVM IR one,
\* or a tuple of one of the four "hip" forms.
DeviceSource(dependency) ==
    \/ dependency.kind = "file" /\ fileext(dependency.ref) \notin LLVM_IR_EXT
    \/ dependency.kind = "tuple" /\ TupleForm(TupleTable[dependency.ref]).via = "hiprtc"

WalkNodes(l) ==
    {walk_linking_dependencies(l, FALSE)[i] :
         i \in DOMAIN walk_linking_dependencies(l, FALSE)}

\* C18: a library whose reduction did not raise (it was rebuilt) is finalized
\* and has no device-source dependency anywhere in its walk.
C18_ReductionRaises ==
    [][\A l \in created :
          (Called("rebuild") /\ last'.arg = LibNode(l) /\ ~last'.raised)
          => /\ finalized[l]
             /\ \A dependency \in WalkNodes(l) : ~DeviceSource(dependency)]_vars

\* C19: a call that collects the dependencies of a library whose only
\* dependency is a malformed tuple raises without having opened a file.
C19_MalformedRejectedBeforeIO ==
    [][\A l \in created :
          (CollectorRan(l)
             /\ Len(linking_dependencies[l]) = 1
             /\ \E t \in TuplesOf(l) : Malformed(TupleTable[t]))
          => last'.raised /\ last'.reads = 0]_vars

\* C20: a call that collects the dependencies of a library with a malformed
\* tuple among them raises, and hiprtc.compile and llvmutils.link_modules
\* have not been called and no Linker has been fed by then.
C20_ConfigurationErrorBeforeToolchain ==
    [][\A l \in created :
          (CollectorRan(l) /\ \E t \in TuplesOf(l) : Malformed(TupleTable[t]))
          => /\ last'.raised
             /\ last'.compiles = 0
             /\ last'.links = 0]_vars

\* ------------------------------------------------------------ failure paths
\* C21: a call of get_linked_llvm_ir or get_codeobj that raises has stored
\* nothing: the five caches of every library are as before the call, and no
\* entry has been added to the linker cache.
C21_NothingCachedOnFailure ==
    [][((Called("get_linked_llvm_ir") \/ Called("get_codeobj")) /\ last'.raised)
       => (last'.inserts = 0 /\ UNCHANGED cachevars)]_vars

\* ---------------------------------------------------- tuples in the output
\* The tuple objects in the pre-order walk of l.
WalkTuples(l) == {n \in WalkNodes(l) : n.kind = "tuple"}

\* C22, as claimed: every occurrence of a tuple in the walk has its own entry
\* in the deduplicated linker inputs.
C22_TupleNeverDeduplicated ==
    \A l \in Collectable, a \in Archs :
        \A n \in WalkTuples(l) :
            Count(get_linker_inputs(l, a), dep_mod(n, a))
                = Count(walk_linking_dependencies(l, FALSE), n)

\* C22, amended: a tuple is keyed by its object identity, as a library is:
\* every tuple object in the walk has exactly one entry in the deduplicated
\* linker inputs, however often the walk reaches it.
C22_TupleObjectOnce ==
    \A l \in Collectable, a \in Archs :
        \A n \in WalkTuples(l) : Count(get_linker_inputs(l, a), dep_mod(n, a)) = 1

\* C22 witness: the walk of a library reaches the same tuple object twice.
C22_Witness ==
    \E l \in Collectable :
        \E n \in WalkTuples(l) : Count(walk_linking_dependencies(l, FALSE), n) >= 2

\* C23: the deduplicated linker inputs of a library start with the library's
\* own module, which occurs in them once.
C23_RootFirst ==
    \A l \in Collectable, a \in Archs :
        /\ get_linker_inputs(l, a)[1] = dep_mod(LibNode(l), a)
        /\ Count(get_linker_inputs(l, a), dep_mod(LibNode(l), a)) = 1

\* C23 witness: deduplication has removed an entry from the linker inputs of a
\* library.
C23_Witness ==
    \E l \in Collectable, a \in Archs :
        /\ Len(get_linker_inputs(l, a)) < Len(unprocessed_result(l, a))
        /\ get_linker_inputs(l, a)[1] = dep_mod(LibNode(l), a)

\* ------------------------------------------------------- loaded functions
\* C24: get_hipfunc on a kernel, under the current device d. If the cache holds
\* a handle for d, that handle is returned, nothing is built or loaded and no
\* cache changes. Otherwise, unless the call raises, a new handle is loaded
\* and stored under d alone, and a Linker is made only if no code object is
\* cached for the architecture of d; so two devices of one architecture share
\* the code object and have a handle each.
C24_HipfuncPerDevice ==
    [][\A l \in created, d \in DOMAIN DeviceArch :
          (Called("get_hipfunc") /\ last'.lib = l /\ last'.arg = DeviceArg(d)
             /\ ~device[l] /\ ~last'.raised)
          => IF hipfunc_cache[l][d] # NoObj
               THEN /\ last'.ret = hipfunc_cache[l][d]
                    /\ last'.sessions = 0
                    /\ UNCHANGED <<cachevars, hipfunc_cache, builds>>
               ELSE /\ last'.ret.kind = "hipfunc"
                    /\ \A e \in DOMAIN DeviceArch : last'.ret # hipfunc_cache[l][e]
                    /\ hipfunc_cache' = [hipfunc_cache EXCEPT ![l][d] = last'.ret]
                    /\ last'.sessions
                           = (IF codeobj_cache[l][DeviceArch[d]] # NoObj THEN 0 ELSE 1)
                    /\ codeobj_cache[l][DeviceArch[d]] # NoObj
                           => /\ UNCHANGED cachevars
                              /\ last'.ret.parts = codeobj_cache[l][DeviceArch[d]].parts]_vars

\* C24 witness: a handle has just been loaded for a second device of an
\* architecture for which another device has one, without a new Linker.
C24_Witness ==
    /\ last.op = "get_hipfunc" /\ ~last.raised /\ last.sessions = 0
    /\ \E d, e \in DOMAIN DeviceArch :
           /\ d # e /\ DeviceArch[d] = DeviceArch[e]
           /\ last.arg = DeviceArg(d)
           /\ hipfunc_cache[last.lib][d] = last.ret
           /\ hipfunc_cache[last.lib][e] # NoObj
           /\ hipfunc_cache[last.lib][e] # last.ret

\* ------------------------------------------------------ IR post-processing
\* C25: normalizing the pointers of a text a second time changes nothing.
C25_PointerNormalizationIdempotent ==
    (transform = "normalize_pointers" /\ Len(llvm_str) >= 3) => llvm_str[3] = llvm_str[2]

\* C25 witness: a text the first normalization changed has been normalized
\* twice.
C25_Witness ==
    /\ transform = "normalize_pointers" /\ Len(llvm_str) >= 3
    /\ llvm_str[2] # llvm_str[1]

\* C26: post-processing a text a second time, with the same names, changes
\* nothing.
C26_PostprocessIdempotent ==
    (transform = "postprocess_llvm_ir" /\ Len(llvm_str) >= 3) => llvm_str[3] = llvm_str[2]

\* C27: what get_linked_llvm_ir returns is bitcode when the call's to_bc is
\* true and LLVM IR when it is false, also when a cache answers the call.
C27_FormatFollowsToBc ==
    [][(Called("get_linked_llvm_ir") /\ ~last'.raised) => last'.ret.to_bc = last'.to_bc]_vars

\* How often the device library is among the modules linked into obj.
DeviceLibCount(obj) ==
    Cardinality({i \in DOMAIN obj.parts : obj.parts[i].src.kind = "hipdevicelib"})

\* C28: no entry of the cache of modules linked without the device library
\* holds the device library, every entry of the cache of modules linked with
\* it holds it once, and get_linked_llvm_ir with link_in_hipdevicelib false
\* returns a module without it.
C28_TwoTierCaches ==
    [][/\ \A l \in Libs, a \in Archs :
            /\ DeviceLibCount(linked_amdgpu_llvm_ir_cache'[l][a]) = 0
            /\ linked_amdgpu_llvm_ir_with_hipdevicelib_cache'[l][a] # NoObj =>
                   DeviceLibCount(linked_amdgpu_llvm_ir_with_hipdevicelib_cache'[l][a]) = 1
       /\ (Called("get_linked_llvm_ir") /\ ~last'.link_in_hipdevicelib /\ ~last'.raised) =>
              DeviceLibCount(last'.ret) = 0]_vars

\* C29: a get_codeobj call that misses the code object cache hands its
\* Linker inputs that hold the device library once.
C29_DeviceLibOnceInCodeobj ==
    [][(Called("get_codeobj") /\ ~last'.raised /\ last'.sessions = 1) =>
           DeviceLibCount(last'.ret) = 1]_vars

\* C30: a get_linked_llvm_ir call with link_in_hipdevicelib true that finds
\* an entry without the device library and none with it does not run the
\* collector, links once, the entry found with the device library, stores the
\* result as the entry with the device library and returns it; a call that
\* finds an entry with the device library returns it and links nothing.
C30_Promotion ==
    [][(Called("get_linked_llvm_ir") /\ last'.link_in_hipdevicelib) =>
         LET with == linked_amdgpu_llvm_ir_with_hipdevicelib_cache[last'.lib][last'.arch]
             without == linked_amdgpu_llvm_ir_cache[last'.lib][last'.arch]
         IN /\ (with = NoObj /\ without # NoObj) =>
                   /\ ~last'.raised /\ ~last'.collector /\ last'.links = 1
                   /\ last'.ret.parts = without.parts \o <<hipdevicelib(last'.arch, "ir")>>
                   /\ linked_amdgpu_llvm_ir_with_hipdevicelib_cache'[last'.lib][last'.arch]
                          = last'.ret
            /\ with # NoObj =>
                   /\ ~last'.raised /\ ~last'.collector /\ last'.links = 0
                   /\ last'.ret = with
                   /\ linked_amdgpu_llvm_ir_with_hipdevicelib_cache'[last'.lib][last'.arch]
                          = with]_vars

\* ------------------------------------------------------ claims: linker cache
\* The key of the request the last _compile_hiprtc_program call made.
Request(r) == CacheKey(r.buffer, r.arch, joined(r.opts.items))

\* C31: a _compile_hiprtc_program call whose request is stored in the linker
\* cache returns the stored entry and does not compile; any other compiles
\* once and stores what it returns under the request.
C31_CompiledOncePerRequest ==
    [][resolution'.op = "_compile_hiprtc_program" =>
         /\ ~resolution'.raised
         /\ IF Stored(linkercache, Request(resolution')) # {}
              THEN /\ resolution'.compiles = 0
                   /\ [key |-> Request(resolution'), entry |-> resolution'.ret] \in linkercache
              ELSE /\ resolution'.compiles = 1
                   /\ [key |-> Request(resolution'), entry |-> resolution'.ret]
                          \in linkercache']_vars

\* C32: of two successive _process_buf calls for the same buffer and
\* architecture the second returns what the first returned and wraps nothing.
C32_BufferWrappedOnce ==
    [][(/\ resolution.op = "_process_buf" /\ resolution'.op = "_process_buf"
        /\ resolution'.buffer = resolution.buffer /\ resolution'.arch = resolution.arch) =>
         (resolution'.ret = resolution.ret /\ resolution'.wraps = 0)]_vars

\* ------------------------------------------- claims: libraries and files once
\* The libraries and the paths in the pre-order walk of l.
WalkLibrariesAndFiles(l) == {n \in WalkNodes(l) : n.kind \in {"lib", "file"}}

\* C33: every library and every path in the walk of a library has exactly one
\* entry in the deduplicated linker inputs.
C33_LibrariesAndFilesOnce ==
    \A l \in Collectable, a \in Archs :
        \A n \in WalkLibrariesAndFiles(l) :
            Count(get_linker_inputs(l, a), dep_mod(n, a)) = 1

\* C33 witness: the walk of a library reaches a library twice and a path twice.
C33_Witness ==
    \E l \in Collectable :
        /\ \E n \in WalkLibrariesAndFiles(l) :
               n.kind = "lib" /\ Count(walk_linking_dependencies(l, FALSE), n) >= 2
        /\ \E n \in WalkLibrariesAndFiles(l) :
               n.kind = "file" /\ Count(walk_linking_dependencies(l, FALSE), n) >= 2

\* ------------------------------------------------- claims: cache coherence
IsUserPart(part) == part.src.kind # "hipdevicelib"

\* obj is nothing, or was built from what the collector yields for l now.
BuiltFromCurrent(obj, l, a) ==
    obj # NoObj =>
        /\ l \in Collectable
        /\ SelectSeq(obj.parts, IsUserPart) = get_linker_inputs(l, a)

\* C34: every cached list of unlinked IR, linked module and code object of a
\* library was built from the linker inputs the library has now.
C34_CachesFollowTheLibrary ==
    \A l \in created, a \in Archs :
        /\ BuiltFromCurrent(unlinked_amdgpu_llvm_strs_cache[l][a], l, a)
        /\ BuiltFromCurrent(linked_amdgpu_llvm_ir_cache[l][a], l, a)
        /\ BuiltFromCurrent(linked_amdgpu_llvm_ir_with_hipdevicelib_cache[l][a], l, a)
        /\ BuiltFromCurrent(codeobj_cache[l][a], l, a)

\* ------------------------------------------------ claims: post-order, cycles
\* The walk in which every library, nested ones too, comes after the nodes
\* of its own dependency list.
RECURSIVE PostOrder(_)
RECURSIVE PostOrderOfList(_)

PostOrderOfList(mods) ==
    IF mods = <<>> THEN <<>>
    ELSE (IF Head(mods).kind = "lib" THEN PostOrder(Head(mods).ref) ELSE <<Head(mods)>>)
         \o PostOrderOfList(Tail(mods))

PostOrder(library) == PostOrderOfList(linking_dependencies[library]) \o <<LibNode(library)>>

\* C36: the post-order walk of a library yields every library, the root and
\* the nested ones, after all nodes of its own dependencies.
C36_PostOrderAtEveryLevel ==
    \A l \in created : walk_linking_dependencies(l, TRUE) = PostOrder(l)

\* The walk of l is still inside a nested call of itself after n levels.
RECURSIVE StillDescending(_, _)
StillDescending(l, n) ==
    IF n = 0 THEN TRUE ELSE \E d \in DirectLibs(l) : StillDescending(d, n - 1)

\* C37: the walk of a library never nests deeper than there are libraries,
\* and in either order it yields a sequence of finite length.
C37_WalkTerminates ==
    \A l \in created :
        /\ ~StillDescending(l, Cardinality(Libs))
        /\ Len(walk_linking_dependencies(l, FALSE)) \in Nat
        /\ Len(walk_linking_dependencies(l, TRUE)) \in Nat

\* C37 witness: the walk of a library descends into a library, and the call
\* that would have made the walk come back to where it started has raised.
C37_Witness ==
    \E l \in created :
        /\ StillDescending(l, 1)
        /\ Len(walk_linking_dependencies(l, FALSE)) >= 2
        /\ last.op = "add_linking_dependency" /\ last.raised
        /\ last.arg = LibNode(l) /\ last.lib \in DirectLibs(l)

\* ---------------------------------------------- claims: address-space correction
\* An atom of an LLVM local name: \w characters and dots.
IsNameAtom(a) == IsWord(a) \/ a = "."

\* Where, in a line, the "%" of a result, the end of its name, the "=", the
\* instruction and its operands are, white space skipped.
PercentAt(line) == RunEnd(line, 1, IsSpace) + 1
NameEnd(line) == RunEnd(line, PercentAt(line) + 1, IsNameAtom)
EqualsAt(line) == RunEnd(line, NameEnd(line) + 1, IsSpace) + 1
InstructionAt(line) == RunEnd(line, EqualsAt(line) + 1, IsSpace) + 1
OperandsAt(line) == RunEnd(line, InstructionAt(line) + 1, IsSpace) + 1

\* The line is an alloca instruction: %name = alloca operands.
IsAllocaInstruction(line) ==
    /\ PercentAt(line) <= Len(line) /\ line[PercentAt(line)] = "%"
    /\ NameEnd(line) > PercentAt(line)
    /\ EqualsAt(line) <= Len(line) /\ line[EqualsAt(line)] = "="
    /\ InstructionAt(line) <= Len(line) /\ line[InstructionAt(line)] = "alloca"
    /\ OperandsAt(line) > InstructionAt(line) + 1
    /\ OperandsAt(line) <= Len(line)

\* The alloca instruction names an address space of its own, after the type.
HasOwnAddrspace(line) == Contains(From(line, OperandsAt(line)), <<",", " ", "addrspace(">>)

\* The lines the claim puts in the place of the given ones.
RECURSIVE ClaimedLines(_)
ClaimedLines(lines) ==
    IF lines = <<>> THEN <<>>
    ELSE (IF IsAllocaInstruction(lines[1]) /\ ~HasOwnAddrspace(lines[1])
            THEN alloca_rewritten([lhs |-> SubSeq(lines[1], PercentAt(lines[1]) + 1,
                                                  NameEnd(lines[1])),
                                   parms |-> From(lines[1], OperandsAt(lines[1]))])
            ELSE <<lines[1]>>)
         \o ClaimedLines(Tail(lines))

\* C39: the address-space correction replaces every line that is an alloca
\* instruction without an address space of its own by the alloca into
\* addrspace(5) under the mangled name and the addrspacecast under the
\* original name, and keeps every other line, in order.
C39_EveryAllocaCorrected ==
    (transform = "alloca_addrspace_correction" /\ Len(llvm_str) >= 2) =>
        llvm_str[2] = join(ClaimedLines(splitlines(llvm_str[1])))

\* ------------------------------------------------ claims: the module's content
\* The attributes that are derived from an architecture other than arch.
OfOtherArchs(arch) ==
    UNION {get_llvm_kernel_attributes(b) \cup get_llvm_device_fun_attributes(b) :
              b \in Archs \ {arch}}
        \ (get_llvm_kernel_attributes(arch) \cup get_llvm_device_fun_attributes(arch))

\* The module without what calls for other architectures stamped on it.
WithoutOtherArchs(m, arch) ==
    [m EXCEPT !.functions =
        [i \in DOMAIN m.functions |->
            [m.functions[i] EXCEPT !.attributes = @ \ OfOtherArchs(arch)]]]

\* C35: the unlinked IR returned for an architecture is the one the module
\* gives when no call for another architecture was made before: no function
\* in it carries an attribute derived from another architecture.
C35_HistoryIndependentIr ==
    emitted.op = "get_unlinked_llvm_ir" =>
        emitted.ir = postprocess_llvm_ir(
                         module_str(WithoutOtherArchs(ir_module, emitted.arch)),
                         original_entry_name, entry_name)

\* The function is the one the target modifications are for.
IsTarget(fn) == ~fn.is_declaration /\ fn.name = original_entry_name

\* C38: the target modifications keep the functions of the module and their
\* names; they give the defined function named by the original entry name the
\* visibility and calling convention of the library's role (kernel: kernel
\* visibility and calling convention; device function: device-function
\* visibility and none), change nothing of it but linkage, calling convention
\* and attributes, and leave every other function as it was.
C38_OnlyTheEntryIsModified ==
    [][emitted'.op \in {"_apply_llvm_amdgpu_modifications", "get_unlinked_llvm_ir"} =>
          /\ DOMAIN ir_module'.functions = DOMAIN ir_module.functions
          /\ \A i \in DOMAIN ir_module.functions :
                 LET fn == ir_module.functions[i]
                     after == ir_module'.functions[i]
                 IN  IF IsTarget(fn)
                     THEN /\ after.name = fn.name
                          /\ after.is_declaration = fn.is_declaration
                          /\ after.linkage = IF device[1]
                                             THEN llvm_amdgpu_device_fun_visibility
                                             ELSE llvm_amdgpu_kernel_visibility
                          /\ after.calling_convention =
                                 IF device[1] THEN ""
                                 ELSE llvm_amdgpu_kernel_calling_convention
                     ELSE after = fn]_vars

\* The modifications were applied to a module with a declaration, a defined
\* function of another name and the entry function, for a kernel.
C38_Witness ==
    /\ emitted.op = "_apply_llvm_amdgpu_modifications"
    /\ ~device[1]
    /\ \E i, j \in DOMAIN ir_module.functions :
           /\ IsTarget(ir_module.functions[i])
           /\ ir_module.functions[i].linkage = llvm_amdgpu_kernel_visibility
           /\ ~IsTarget(ir_module.functions[j])
           /\ ir_module.functions[j].linkage = ""

\* C40: whatever was renamed, the original entry name is the name of a
\* function the module defines, and the unlinked IR returned names the entry
\* point by the current entry name.
C40_OriginalNameNamesTheEntry ==
    original_entry_name # NoName =>
        /\ IsDefined(ir_module, original_entry_name)
        /\ emitted.op = "get_unlinked_llvm_ir" =>
               Contains(emitted.ir, <<"define">>)
               /\ \E i \in 1..Len(emitted.ir) :
                      /\ emitted.ir[i] = "@"
                      /\ SubSeq(emitted.ir, i + 1, i + Len(entry_name)) = entry_name

====
